---- MODULE Spec2Model ----
(***************************************************************************)
(* Delta compression and pack writing of cf-git: the Rabin window hash,    *)
(* the delta index, the delta encoder (createDelta), the delta applier,    *)
(* the base-selection heuristics and the pack writers _pack and            *)
(* _packWithDelta.                                                         *)
(*                                                                         *)
(* Numbers are kept below 2^31.  A Buffer is a record: its length, the     *)
(* bytes that are written out, and the fill of the rest: one repeated byte *)
(* (Buffer.alloc(n, fill) has no bytes written out) or DistinctFill, under *)
(* which byte i is UniqByte(i).                                            *)
(***************************************************************************)
EXTENDS Integers, Sequences, FiniteSets, TLC

VARIABLES
    \* createDelta / applyDelta on one pair of buffers
    source, target, dpc, dindex, pos, instructions, delta, restored, stats,
    \* _pack / _packWithDelta on one list of oids
    oids, enableDelta, ppc, objects, sortedObjects, idx, outputStream,
    hashData, packOffsets, processedOids, entryLog, packError, returned,
    \* the header and back-reference encoders on one number
    encKind, encN, encM, encBytes, encDone,
    \* shouldUseDelta on one triple of lengths
    sudBase, sudTarget, sudDelta, sudResult,
    \* a RabinFingerprint slid over one buffer
    rabBuf, rabFp, rabK, rabResets, rabStatic,
    \* findDeltaBase on one target and one list of candidates
    fdbTarget, fdbCandidates, fdbResult,
    \* one AsyncLock and the callers of its acquire
    lockImpl, acquirers, locks, queues, queueItems, reactions, resolved,
    microtasks, lockCalled, lockGranted, counter

deltaVars == <<source, target, dpc, dindex, pos, instructions, delta, restored, stats>>
packVars == <<oids, enableDelta, ppc, objects, sortedObjects, idx, outputStream,
              hashData, packOffsets, processedOids, entryLog, packError, returned>>
encVars == <<encKind, encN, encM, encBytes, encDone>>
sudVars == <<sudBase, sudTarget, sudDelta, sudResult>>
rabVars == <<rabBuf, rabFp, rabK, rabResets, rabStatic>>
lockVars == <<lockImpl, acquirers, locks, queues, queueItems, reactions, resolved,
              microtasks, lockCalled, lockGranted, counter>>
fdbVars == <<fdbTarget, fdbCandidates, fdbResult>>
restVars == <<rabVars, lockVars, fdbVars>>
vars == <<deltaVars, packVars, encVars, sudVars, restVars>>

(***************************************************************************)
(* Program constants                                                       *)
(***************************************************************************)
RABIN_WINDOW == 16
RABIN_SHIFT == 23
RABIN_MASK == 8388607
MAX_INDEX_SIZE == 104857600
MIN_COPY_LENGTH == RABIN_WINDOW
MAX_INSERT_LENGTH == 127
MAX_DELTA_CHAIN_DEPTH == 50
MIN_SIZE_FOR_DELTA == 16
WINDOW_SIZE == 10
COPY_LENGTH_64K == 65536

(***************************************************************************)
(* Arithmetic helpers                                                      *)
(***************************************************************************)
Min2(a, b) == IF a < b THEN a ELSE b
Max2(a, b) == IF a > b THEN a ELSE b

\* then, with first computed before it
InOrder(first, then) == IF first = first THEN then ELSE then

RECURSIVE Pow2(_)
Pow2(k) == IF k = 0 THEN 1 ELSE 2 * Pow2(k - 1)

\* a | b on two numbers in 0 .. 2^31 - 1
RECURSIVE BitOr(_, _)
BitOr(a, b) ==
    IF a = 0 THEN b
    ELSE IF b = 0 THEN a
    ELSE 2 * BitOr(a \div 2, b \div 2) + (IF a % 2 = 1 \/ b % 2 = 1 THEN 1 ELSE 0)

\* a & b on two numbers in 0 .. 2^31 - 1
RECURSIVE BitAnd(_, _)
BitAnd(a, b) ==
    IF a = 0 \/ b = 0 THEN 0
    ELSE 2 * BitAnd(a \div 2, b \div 2) + (IF a % 2 = 1 /\ b % 2 = 1 THEN 1 ELSE 0)

(***************************************************************************)
(* Buffers                                                                 *)
(***************************************************************************)
Buf(bytes) ==
    LET written == bytes \o <<>>
    IN  [length |-> Len(written), bytes |-> written, fill |-> 0]
Alloc(n, b) == [length |-> n, bytes |-> <<>>, fill |-> b]
EmptyBuf == Buf(<<>>)

\* Byte i of a content no two of whose 3-byte windows are alike within
\* 3 * 2^21 bytes, so that no two 16-byte windows have the same hash
DistinctFill == 256
UniqByte(i) ==
    LET k == i \div 3
    IN  CASE i % 3 = 0 -> (k \div 128) % 128
          [] i % 3 = 1 -> k % 128
          [] OTHER -> 128 + ((k \div 16384) % 128)
\* A buffer of n such bytes, and a buffer of n bytes b
Uniq(n) == Alloc(n, DistinctFill)
Rep(b, n) == Alloc(n, b)

\* buffer[i], i counted from 0
At(buf, i) ==
    IF i < Len(buf.bytes) THEN buf.bytes[i + 1]
    ELSE IF buf.fill = DistinctFill THEN UniqByte(i)
    ELSE buf.fill

\* buffer.slice(start, end) as a sequence of bytes
Slice(buf, start, end) ==
    IF end <= Len(buf.bytes) THEN SubSeq(buf.bytes, start + 1, end)
    ELSE [k \in 1..(end - start) |-> At(buf, start + k - 1)] \o <<>>

(***************************************************************************)
(* AsyncLock, in its two implementations: the Map of promises of           *)
(* src/utils/AsyncLock.js ("map") and the Map of queues of resolvers       *)
(* ("queue").  A promise is named by the acquirer whose call created it,   *)
(* and so is an array of resolvers.  The continuation of an await runs as  *)
(* a microtask, in the order in which the continuations were queued; a     *)
(* call of acquire or of a release function may come from any job, also    *)
(* from the job that has just called a release function.                   *)
(***************************************************************************)
NProcs == 3
Procs == 1..NProcs
NoProc == 0

\* A key as it is passed to acquire: a string or an array of strings
StringKey(s) == [array |-> FALSE, parts |-> <<s>>]
ArrayKey(parts) == [array |-> TRUE, parts |-> parts]
KeyInputs == {StringKey("a"), StringKey("a:b"), ArrayKey(<<"a", "b">>)}

\* Array.prototype.join
RECURSIVE join(_, _)
join(parts, sep) ==
    IF Len(parts) = 0 THEN ""
    ELSE IF Len(parts) = 1 THEN parts[1]
    ELSE parts[1] \o sep \o join(Tail(parts), sep)

\* const lockKey = Array.isArray(key) ? key.join(':') : key
lockKeyOf(key) == IF key.array THEN join(key.parts, ":") ELSE key.parts[1]
LockKeys == {lockKeyOf(key) : key \in KeyInputs}

\* A Map that never reports an entry
hasNever(map, lockKey) == FALSE

\* Map.prototype.has
has(map, lockKey) == map[lockKey] # NoProc

\* fn: whether the call is acquire(key, fn), with the function that counts,
\* or acquire(key), whose caller only calls the release function
NotCalled ==
    [pc |-> "idle", lockKey |-> "", queue |-> NoProc, current |-> 0, fn |-> TRUE]

LockFresh ==
    /\ acquirers = [p \in Procs |-> NotCalled]
    /\ locks = [k \in LockKeys |-> NoProc]
    /\ queues = [k \in LockKeys |-> NoProc]
    /\ queueItems = [p \in Procs |-> <<>>]
    /\ reactions = [p \in Procs |-> <<>>]
    /\ resolved = {}
    /\ microtasks = <<>>
    /\ lockCalled = <<>> /\ lockGranted = <<>>
    /\ counter = [k \in LockKeys |-> 0]

LockIdle == lockImpl = "idle" /\ LockFresh

\* new AsyncLock(), in one of the two implementations
InitLock == lockImpl \in {"map", "queue"} /\ LockFresh

\* await promise, by acquirer p, with queued the microtasks queued before:
\* p goes on when the promise is resolved
AwaitPromise(p, promise, queued) ==
    IF promise \in resolved
    THEN microtasks' = Append(queued, p) /\ UNCHANGED reactions
    ELSE /\ reactions' = [reactions EXCEPT ![promise] = Append(@, p)]
         /\ microtasks' = queued

\* The resolve function of a promise is called: the continuations that await
\* it are queued in the order in which they began to wait
ResolvePromise(promise) ==
    /\ resolved' = resolved \cup {promise}
    /\ microtasks' = microtasks \o reactions[promise]
    /\ reactions' = [reactions EXCEPT ![promise] = <<>>]

\* acquire has the lock: what follows reads the counter of the key (the
\* function passed to acquire is called at once; with no function the
\* caller goes on with the release function)
Granted(p, lockKey, queue) ==
    /\ acquirers' = [acquirers EXCEPT ![p] =
           [pc |-> "holding", lockKey |-> lockKey, queue |-> queue,
            current |-> counter[lockKey], fn |-> @.fn]]
    /\ lockGranted' = Append(lockGranted, p)

Waiting(p, lockKey, queue) ==
    /\ acquirers' = [acquirers EXCEPT ![p] =
           [pc |-> "waiting", lockKey |-> lockKey, queue |-> queue, current |-> 0,
            fn |-> @.fn]]
    /\ UNCHANGED lockGranted

\* The end of the critical section of p: the counter read when the lock was
\* granted is written back, one higher, by the function passed to acquire
CriticalSectionEnds(p) ==
    /\ counter' = IF acquirers[p].fn
                  THEN [counter EXCEPT ![acquirers[p].lockKey] = acquirers[p].current + 1]
                  ELSE counter
    /\ acquirers' = [acquirers EXCEPT ![p] = [@ EXCEPT !.pc = "done"]]

\* Map of promises: the while loop of acquire from its test to the next
\* await, or to the end of acquire
MapLoop(p, lockKey, queued) ==
    IF has(locks, lockKey)
    THEN /\ Waiting(p, lockKey, NoProc)
         /\ AwaitPromise(p, locks[lockKey], queued)
         /\ UNCHANGED locks
    ELSE /\ locks' = [locks EXCEPT ![lockKey] = p]
         /\ Granted(p, lockKey, NoProc)
         /\ microtasks' = queued
         /\ UNCHANGED reactions

\* Map of promises: acquire(key) or acquire(key, fn) is called
MapAcquire(p, key) ==
    /\ lockImpl = "map" /\ acquirers[p].pc = "idle"
    /\ lockCalled' = Append(lockCalled, p)
    /\ MapLoop(p, lockKeyOf(key), microtasks)
    /\ UNCHANGED <<lockImpl, queues, queueItems, resolved, counter>>

\* Map of promises: the continuation of the await in the loop
MapResume ==
    /\ lockImpl = "map" /\ microtasks # <<>>
    /\ MapLoop(Head(microtasks), acquirers[Head(microtasks)].lockKey, Tail(microtasks))
    /\ UNCHANGED <<lockImpl, queues, queueItems, resolved, counter, lockCalled>>

\* Map of promises: the release function of p is called, at the end of the
\* critical section
MapRelease(p) ==
    /\ lockImpl = "map" /\ acquirers[p].pc = "holding"
    /\ CriticalSectionEnds(p)
    /\ locks' = [locks EXCEPT ![acquirers[p].lockKey] = NoProc]
    /\ ResolvePromise(p)
    /\ UNCHANGED <<lockImpl, queues, queueItems, lockCalled, lockGranted>>

\* Map of queues: the array made by p for a key without one is named by p,
\* or by a caller that names none of the arrays in the Map when an array
\* that p made before is still there
NewQueue(p) ==
    IF \A k \in LockKeys : queues[k] # p THEN p
    ELSE CHOOSE q \in Procs : \A k \in LockKeys : queues[k] # q

\* Map of queues: acquire(key) or acquire(key, fn) is called
QueueAcquire(p, key) ==
    /\ lockImpl = "queue" /\ acquirers[p].pc = "idle"
    /\ lockCalled' = Append(lockCalled, p)
    /\ LET lockKey == lockKeyOf(key)
           queue == IF has(queues, lockKey) THEN queues[lockKey] ELSE NewQueue(p)
           items == IF has(queues, lockKey) THEN queueItems[queue] ELSE <<>>
       IN  /\ queues' = [queues EXCEPT ![lockKey] = queue]
           /\ queueItems' = [queueItems EXCEPT ![queue] = Append(items, p)]
           /\ IF Len(items) + 1 > 1
              THEN /\ Waiting(p, lockKey, queue)
                   /\ AwaitPromise(p, p, microtasks)
              ELSE /\ Granted(p, lockKey, queue)
                   /\ UNCHANGED <<microtasks, reactions>>
    /\ UNCHANGED <<lockImpl, locks, resolved, counter>>

\* Map of queues: the continuation of await acquirePromise
QueueResume ==
    /\ lockImpl = "queue" /\ microtasks # <<>>
    /\ Granted(Head(microtasks), acquirers[Head(microtasks)].lockKey,
               acquirers[Head(microtasks)].queue)
    /\ microtasks' = Tail(microtasks)
    /\ UNCHANGED <<lockImpl, locks, queues, queueItems, reactions, resolved, counter,
                   lockCalled>>

\* Map of queues: the release function of p is called, at the end of the
\* critical section
QueueRelease(p) ==
    /\ lockImpl = "queue" /\ acquirers[p].pc = "holding"
    /\ CriticalSectionEnds(p)
    /\ LET queue == acquirers[p].queue
           shifted == Tail(queueItems[queue])
       IN  /\ queueItems' = [queueItems EXCEPT ![queue] = shifted]
           /\ IF Len(shifted) > 0
              THEN ResolvePromise(shifted[1]) /\ UNCHANGED queues
              ELSE /\ queues' = [queues EXCEPT ![acquirers[p].lockKey] = NoProc]
                   /\ UNCHANGED <<microtasks, reactions, resolved>>
    /\ UNCHANGED <<lockImpl, locks, lockCalled, lockGranted>>

\* A sequence without p
Without(procs, p) == LET Other(q) == q # p IN SelectSeq(procs, Other)

\* A caller whose call is over gets ready to call acquire(key) again; it will
\* release by the release function that acquire returns. The call that is
\* over leaves the record of the calls, and its promise, settled and with no
\* continuation left, is forgotten
LockAgain(p) ==
    /\ acquirers[p].pc = "done"
    /\ acquirers' = [acquirers EXCEPT ![p] = [NotCalled EXCEPT !.fn = FALSE]]
    /\ lockCalled' = Without(lockCalled, p)
    /\ lockGranted' = Without(lockGranted, p)
    /\ resolved' = resolved \ {p}
    /\ UNCHANGED <<lockImpl, locks, queues, queueItems, reactions, microtasks, counter>>

(***************************************************************************)
(* Rabin fingerprint.  A JavaScript number too wide for a model integer is *)
(* held as hi * 65536 + lo with lo in 0..65535.                            *)
(***************************************************************************)
Wide(hi, lo) == [hi |-> hi, lo |-> lo]
WideOf(n) == Wide(n \div 65536, n % 65536)

\* x << 24 on a byte x, as a signed 32-bit number (the shift count
\* (RABIN_WINDOW - 1) * 8 = 120 is taken modulo 32)
ShiftCount(k) == k % 32
OldShift == Pow2(ShiftCount((RABIN_WINDOW - 1) * 8) - 16)
OldContribution(oldByte) ==
    LET u == (oldByte * OldShift) % 65536
    IN  Wide(IF u >= 32768 THEN u - 65536 ELSE u, 0)

WideSub(a, b) ==
    IF a.lo < b.lo THEN Wide(a.hi - b.hi - 1, a.lo - b.lo + 65536)
    ELSE Wide(a.hi - b.hi, a.lo - b.lo)

\* ToInt32(w) << 8, bits 0..31 of the result as an unsigned wide number
WideShl8(w) ==
    LET hi16 == w.hi % 65536
        lowCarry == (w.lo % 65536) \div 256
    IN  Wide(((hi16 % 256) * 256 + lowCarry) % 65536, (w.lo % 256) * 256)

\* (w | byte) & RABIN_MASK for an unsigned wide w and a byte
MaskHi == Pow2(RABIN_SHIFT - 16)
WideOrMask(w, byte) ==
    (w.hi % MaskHi) * 65536 + (w.lo \div 256) * 256 + BitOr(w.lo % 256, byte)

NewFingerprint ==
    [window |-> [i \in 1..RABIN_WINDOW |-> 0], hash |-> 0, pos |-> 0, filled |-> FALSE]

\* A faulty slide: the rolling branch does not shift the hash
slideUnshifted(fp, byte) ==
    LET filling == ~fp.filled /\ fp.pos < RABIN_WINDOW
        oldByte == fp.window[fp.pos + 1]
        rolled == IF filling THEN WideShl8(WideOf(fp.hash))
                  ELSE WideSub(WideOf(fp.hash), OldContribution(oldByte))
    IN  [window |-> [fp.window EXCEPT ![fp.pos + 1] = byte],
         hash |-> WideOrMask(Wide(rolled.hi % 65536, rolled.lo), byte),
         pos |-> IF filling /\ fp.pos + 1 < RABIN_WINDOW THEN fp.pos + 1
                 ELSE IF filling THEN 0
                 ELSE (fp.pos + 1) % RABIN_WINDOW,
         filled |-> IF filling THEN fp.pos + 1 = RABIN_WINDOW ELSE fp.filled]

\* RabinFingerprint.slide(byte): the fingerprint after the call
slide(fp, byte) ==
    LET filling == ~fp.filled /\ fp.pos < RABIN_WINDOW
        oldByte == fp.window[fp.pos + 1]
        rolled == IF filling THEN WideOf(fp.hash)
                  ELSE WideSub(WideOf(fp.hash), OldContribution(oldByte))
    IN  [window |-> [fp.window EXCEPT ![fp.pos + 1] = byte],
         hash |-> WideOrMask(WideShl8(rolled), byte),
         pos |-> IF filling /\ fp.pos + 1 < RABIN_WINDOW THEN fp.pos + 1
                 ELSE IF filling THEN 0
                 ELSE (fp.pos + 1) % RABIN_WINDOW,
         filled |-> IF filling THEN fp.pos + 1 = RABIN_WINDOW ELSE fp.filled]

\* The operand buffer[i] of a bitwise or: outside the buffer the element is
\* undefined, which the operator takes as 0
ByteOperand(buf, i) == IF i < 0 \/ i >= buf.length THEN 0 ELSE At(buf, i)

\* The loop of computeRabinHash with the mask one bit narrower
RECURSIVE HashFoldNarrow(_, _, _, _)
HashFoldNarrow(buf, offset, i, hash) ==
    IF i = RABIN_WINDOW THEN hash
    ELSE HashFoldNarrow(buf, offset, i + 1,
                        (hash * 256 + ByteOperand(buf, offset + i)) % ((RABIN_MASK + 1) \div 2))

\* computeRabinHash(buffer, offset, length): -1 stands for the thrown error
RECURSIVE HashFold(_, _, _, _)
HashFold(buf, offset, i, hash) ==
    IF i = RABIN_WINDOW THEN hash
    ELSE LET next == WideOrMask(WideShl8(WideOf(hash)), ByteOperand(buf, offset + i))
         IN  InOrder(next, HashFold(buf, offset, i + 1, next))

computeRabinHash(buf, offset, length) ==
    IF length # RABIN_WINDOW THEN -1
    ELSE IF offset + length > buf.length THEN -1
    ELSE HashFold(buf, offset, 0, 0)

\* RabinFingerprint.reset()
reset(fp) == NewFingerprint

\* The buffers slid through a fingerprint in the runs below: bytes at the
\* ends and in the middle of the byte range, in patterns of period 3, a
\* ramp, and a pattern whose first byte is off the pattern
RabLen == 20
MaxResets == 1
RabBytes == {0, 1, 127, 128, 255}
RabInputs ==
    {Buf([i \in 1..RabLen |-> IF i % 3 = 0 THEN a ELSE IF i % 3 = 1 THEN b ELSE c]) :
        a \in RabBytes, b \in RabBytes, c \in RabBytes}
    \cup {Buf([i \in 1..RabLen |-> (i * 37) % 256])}
    \cup {Buf([i \in 1..RabLen |->
                IF i = 1 THEN 7 ELSE IF i % 3 = 0 THEN 128 ELSE IF i % 3 = 1 THEN 1 ELSE 255])}

\* What is done with the buffer: its bytes are slid through a fingerprint,
\* or computeRabinHash is called on it at an offset
Sliding == [kind |-> "slide", offset |-> 0, done |-> FALSE, hash |-> 0]
StaticCall(offset) == [kind |-> "static", offset |-> offset, done |-> FALSE, hash |-> 0]
StaticOffsets == (0 - RABIN_WINDOW - 1)..RabLen

RabIdle ==
    /\ rabBuf = EmptyBuf /\ rabFp = NewFingerprint /\ rabK = 0 /\ rabResets = 0
    /\ rabStatic = [Sliding EXCEPT !.kind = "idle"]
\* No call of findDeltaBase
FdbIdle ==
    /\ fdbTarget = [oid |-> <<>>, type |-> "", data |-> EmptyBuf, depth |-> 0]
    /\ fdbCandidates = <<>>
    /\ fdbResult = [done |-> FALSE, base |-> fdbTarget]
RestIdle == RabIdle /\ LockIdle /\ FdbIdle

InitRabin ==
    /\ rabBuf \in RabInputs /\ rabFp = NewFingerprint /\ rabK = 0 /\ rabResets = 0
    /\ rabStatic \in {Sliding} \cup {StaticCall(offset) : offset \in StaticOffsets}

\* fp.slide(B[k]) on the next byte of the buffer
RabSlide ==
    /\ rabStatic.kind = "slide"
    /\ rabK < rabBuf.length
    /\ rabFp' = slide(rabFp, At(rabBuf, rabK))
    /\ rabK' = rabK + 1
    /\ UNCHANGED <<rabBuf, rabResets, rabStatic>>

\* fp.reset() after the buffer, which is then slid again from its start
RabReset ==
    /\ rabStatic.kind = "slide"
    /\ rabK = rabBuf.length /\ rabResets < MaxResets
    /\ rabFp' = reset(rabFp)
    /\ rabK' = 0
    /\ rabResets' = rabResets + 1
    /\ UNCHANGED <<rabBuf, rabStatic>>

\* computeRabinHash(buffer, offset)
RabStatic ==
    /\ rabStatic.kind = "static" /\ ~rabStatic.done
    /\ rabStatic' = [rabStatic EXCEPT
           !.done = TRUE,
           !.hash = computeRabinHash(rabBuf, rabStatic.offset, RABIN_WINDOW)]
    /\ UNCHANGED <<rabBuf, rabFp, rabK, rabResets>>

\* C12: once 16 or more bytes of the buffer are slid into a fresh or reset
\* fingerprint, getHash() is computeRabinHash of the last 16 bytes slid
C12_RollingIsStatic ==
    rabK >= RABIN_WINDOW =>
        /\ rabFp.filled
        /\ rabFp.hash = computeRabinHash(rabBuf, rabK - RABIN_WINDOW, RABIN_WINDOW)

C12_Witness ==
    /\ rabResets = 1 /\ rabK = rabBuf.length /\ rabK > RABIN_WINDOW
    /\ At(rabBuf, rabK - RABIN_WINDOW - 1) >= 128 /\ rabFp.hash > 0

(***************************************************************************)
(* Delta index                                                             *)
(***************************************************************************)
\* The sources of createDelta in the runs below
MidLen == 40
LongLen == 300
SmallSources ==
    {Uniq(n) : n \in {0, 10, RABIN_WINDOW, MidLen, LongLen}} \cup {Rep(97, MidLen)}
BigSources == {Uniq(COPY_LENGTH_64K), Uniq(COPY_LENGTH_64K + 1)}
\* The source and the target of the 'binary data' test
BinarySource == Buf(<<0, 1, 2, 3, 4, 5, 6, 7, 8, 9>>)
BinaryTarget == Buf(<<0, 1, 2, 99, 4, 5, 6, 7, 8, 9, 10, 11>>)

\* The payloads of the objects packed in the runs below
PayloadLen == 200
ChainLen == MAX_DELTA_CHAIN_DEPTH + 2
HugeLen == MAX_INDEX_SIZE + 1048576
PayloadA == Rep(65, PayloadLen)
PayloadB == Buf([k \in 1..(PayloadLen + 1) |-> IF k <= PayloadLen THEN 65 ELSE 33])
PayloadC == Rep(90, PayloadLen)
PayloadE == Buf(<<104, 101, 108, 108, 111>>)
PayloadU == Uniq(LongLen)
PayloadV == Buf([k \in 1..(LongLen + 20) |-> IF k <= 20 THEN 255 ELSE UniqByte(k - 21)])
PayloadX == Rep(88, MIN_SIZE_FOR_DELTA + 4)
PayloadChain(k) == Rep(65, MIN_SIZE_FOR_DELTA + k - 1)
PayloadH1 == Alloc(HugeLen, 0)
PayloadH2 == Alloc(HugeLen + 1, 0)
PackSources ==
    {PayloadA, PayloadB, PayloadC, PayloadU, PayloadV}
    \cup {PayloadChain(k) : k \in 1..ChainLen}

\* The scan of _buildIndex over source[lo .. hi-1], continued from the
\* fingerprint fp: the fingerprint after it and, in scan order, the hash of
\* every position at which the window was full.  The scan is cut in halves so
\* that a long source is walked without deep nesting.
RECURSIVE ScanSource(_, _, _, _)
ScanSource(buf, fp, lo, hi) ==
    LET Slid(f2) == [hashes |-> IF f2.filled THEN <<f2.hash>> ELSE <<>>, fp |-> f2]
        Joined(left, right) == [hashes |-> left.hashes \o right.hashes, fp |-> right.fp]
        Halves(mid, left) == Joined(left, ScanSource(buf, left.fp, mid, hi))
        Split(mid) == Halves(mid, ScanSource(buf, fp, lo, mid))
    IN  IF hi <= lo THEN [hashes |-> <<>>, fp |-> fp]
        ELSE IF hi = lo + 1 THEN Slid(slide(fp, At(buf, lo)))
        ELSE Split((lo + hi) \div 2)

\* _buildIndex: the hash table of a source as the sequence of the hashes
\* entered, hashes[o + 1] being the hash under which offset o was entered
buildIndex(src) ==
    IF src.length < RABIN_WINDOW THEN <<>>
    ELSE ScanSource(src, NewFingerprint, 0, src.length).hashes

\* The hash tables of the sources above, each built once
builtIndexes ==
    LET Built(table) == InOrder(table, table)
    IN  Built([src \in SmallSources \cup BigSources \cup PackSources \cup {BinarySource} |->
                   buildIndex(src)])
hashTable(src) == builtIndexes[src]

\* new DeltaIndex(source): err is set when the constructor throws.  The hash
\* table of the index is hashTable(source).
DeltaIndex(src) ==
    IF src.length > MAX_INDEX_SIZE
    THEN [err |-> "SourceTooLarge", source |-> src, entries |-> 0]
    ELSE [err |-> "", source |-> src, entries |-> Len(hashTable(src))]

\* A faulty index: an offset entered under a hash replaces the one before it
HashTableGetLast(index, hash) ==
    LET Chain(hashes) ==
            LET HasHash(o) ==
                    /\ hashes[o + 1] = hash
                    /\ \A later \in (o + 1)..(index.entries - 1) : hashes[later + 1] # hash
            IN  SelectSeq([k \in 1..index.entries |-> k - 1], HasHash)
    IN  Chain(hashTable(index.source))

\* this.hashTable.get(hash): the chain of the hash, the offsets in the order in
\* which _buildIndex linked them (the empty chain for a hash never entered)
HashTableGet(index, hash) ==
    LET Chain(hashes) ==
            LET HasHash(o) == hashes[o + 1] = hash
            IN  SelectSeq([k \in 1..index.entries |-> k - 1], HasHash)
    IN  Chain(hashTable(index.source))

\* A faulty _matchLength: the bytes behind an equal hash are not compared
matchLengthTrusted(src, srcPos, tgt, tgtPos) ==
    Max2(0, Min2(src.length - srcPos, tgt.length - tgtPos))

\* DeltaIndex._matchLength
matchLength(src, srcPos, tgt, tgtPos) ==
    LET Same(n) == At(src, srcPos + n) = At(tgt, tgtPos + n)
        Counted(maxLength) ==
            IF maxLength <= 0 THEN 0
            ELSE CHOOSE n \in 0..maxLength :
                     /\ n >= maxLength \/ ~Same(n)
                     /\ \A m \in 0..(n - 1) : Same(m)
    IN  Counted(Min2(src.length - srcPos, tgt.length - tgtPos))

NoMatch == [srcOffset |-> -1, length |-> 0]

\* The while loop of findMatch over chain[lo .. hi], from the best so far.
\* The first half is computed before the second is entered.
RECURSIVE ScanChain(_, _, _, _, _, _, _)
ScanChain(index, chain, tgt, tgtPos, lo, hi, best) ==
    LET Better(length) ==
            IF length > best.length THEN [srcOffset |-> chain[lo], length |-> length]
            ELSE best
        Second(mid, firstHalf) ==
            InOrder(firstHalf, ScanChain(index, chain, tgt, tgtPos, mid + 1, hi, firstHalf))
        Split(mid) == Second(mid, ScanChain(index, chain, tgt, tgtPos, lo, mid, best))
    IN  IF hi < lo THEN best
        ELSE IF hi = lo THEN Better(matchLength(index.source, chain[lo], tgt, tgtPos))
        ELSE Split((lo + hi) \div 2)

\* A faulty loop: of the longest matches of a chain the last one is kept
BestOfChainLast(index, chain, tgt, tgtPos) ==
    LET Length(k) == matchLength(index.source, chain[k], tgt, tgtPos)
        Longest(k) == \A j \in 1..Len(chain) : Length(j) <= Length(k)
        Last(ks) == CHOOSE k \in ks : \A j \in ks : j <= k
        Kept(k) ==
            IF Length(k) = 0 THEN NoMatch
            ELSE [srcOffset |-> chain[k], length |-> Length(k)]
    IN  IF chain = <<>> THEN NoMatch
        ELSE Kept(Last({j \in 1..Len(chain) : Longest(j)}))

\* The while loop of findMatch over a whole chain (none for no entry)
BestOfChain(index, chain, tgt, tgtPos) ==
    ScanChain(index, chain, tgt, tgtPos, 1, Len(chain), NoMatch)

\* DeltaIndex.findMatch: NoMatch stands for null
findMatch(index, tgt, tgtPos) ==
    LET Longest(best) == IF best.length >= RABIN_WINDOW THEN best ELSE NoMatch
    IN  IF tgtPos + RABIN_WINDOW > tgt.length THEN NoMatch
        ELSE Longest(BestOfChain(index,
                 HashTableGet(index, computeRabinHash(tgt, tgtPos, RABIN_WINDOW)),
                 tgt, tgtPos))

\* DeltaIndex.findAllMatches: the matches of at least RABIN_WINDOW bytes
\* along the chain, in chain order
findAllMatches(index, tgt, tgtPos) ==
    LET Long(m) == m.length >= RABIN_WINDOW
        Along(chain) ==
            SelectSeq([k \in 1..Len(chain) |->
                          [srcOffset |-> chain[k],
                           length |-> matchLength(index.source, chain[k], tgt, tgtPos)]],
                      Long)
    IN  IF tgtPos + RABIN_WINDOW > tgt.length THEN <<>>
        ELSE Along(HashTableGet(index, computeRabinHash(tgt, tgtPos, RABIN_WINDOW)))

(***************************************************************************)
(* Delta encoder                                                           *)
(***************************************************************************)
CopyInstr(srcOffset, length) ==
    [type |-> "COPY", srcOffset |-> srcOffset, length |-> length, data |-> <<>>]
InsertInstr(data) ==
    [type |-> "INSERT", srcOffset |-> 0, length |-> Len(data), data |-> data]

IsGood(m) == m # NoMatch /\ m.length >= MIN_COPY_LENGTH
GoodMatch(index, tgt, p) == IsGood(findMatch(index, tgt, p))

\* The look-ahead loop of createDelta over the positions lo .. hi-1: the first
\* position with a good match, hi when there is none
RECURSIVE LookAhead(_, _, _, _)
LookAhead(index, tgt, lo, hi) ==
    LET Second(mid, first) == IF first < mid THEN first ELSE LookAhead(index, tgt, mid, hi)
        Split(mid) == Second(mid, LookAhead(index, tgt, lo, mid))
    IN  IF hi <= lo THEN hi
        ELSE IF hi = lo + 1 THEN (IF GoodMatch(index, tgt, lo) THEN lo ELSE hi)
        ELSE Split((lo + hi) \div 2)

\* The iteration with the size test of the look-ahead loop made one byte later
WalkStepLate(index, tgt, p) ==
    LET Stepped(match, insertEnd) ==
            IF IsGood(match)
            THEN [instr |-> CopyInstr(match.srcOffset, match.length),
                  pos |-> p + match.length]
            ELSE [instr |-> InsertInstr(Slice(tgt, p, insertEnd)), pos |-> insertEnd]
    IN  Stepped(findMatch(index, tgt, p),
                LookAhead(index, tgt, p + 1, Min2(tgt.length, p + MAX_INSERT_LENGTH + 1)))

\* The iteration with a COPY that leaves the position one byte short
WalkStepShort(index, tgt, p) ==
    LET Stepped(match, insertEnd) ==
            IF IsGood(match)
            THEN [instr |-> CopyInstr(match.srcOffset, match.length),
                  pos |-> p + match.length - 1]
            ELSE [instr |-> InsertInstr(Slice(tgt, p, insertEnd)), pos |-> insertEnd]
    IN  Stepped(findMatch(index, tgt, p),
                LookAhead(index, tgt, p + 1, Min2(tgt.length, p + MAX_INSERT_LENGTH)))

\* One iteration of the walk of createDelta at position p: the instruction it
\* pushes and the position it leaves
WalkStep(index, tgt, p) ==
    LET Stepped(match, insertEnd) ==
            IF IsGood(match)
            THEN [instr |-> CopyInstr(match.srcOffset, match.length),
                  pos |-> p + match.length]
            ELSE [instr |-> InsertInstr(Slice(tgt, p, insertEnd)), pos |-> insertEnd]
    IN  Stepped(findMatch(index, tgt, p),
                LookAhead(index, tgt, p + 1, Min2(tgt.length, p + MAX_INSERT_LENGTH)))

RECURSIVE Walk(_, _, _, _)
Walk(index, tgt, p, instrs) ==
    LET Pushed(step, pushed) == InOrder(pushed, Walk(index, tgt, step.pos, pushed))
        Stepped(step) == Pushed(step, Append(instrs, step.instr))
    IN  IF p >= tgt.length THEN instrs ELSE Stepped(WalkStep(index, tgt, p))

\* analyzeDelta: the loop, which is the loop of createDelta with counters in
\* the place of the instructions, and the statistics returned (without the
\* compression ratio); err is set when the constructor of the index throws
NoStats ==
    [err |-> "none", sourceSize |-> 0, targetSize |-> 0, copyBytes |-> 0,
     insertBytes |-> 0, copyInstructions |-> 0, insertInstructions |-> 0,
     totalInstructions |-> 0]
RECURSIVE AnalyzeWalk(_, _, _, _)
AnalyzeWalk(index, tgt, p, counted) ==
    LET Counted(step) ==
            IF step.instr.type = "COPY"
            THEN [counted EXCEPT !.copyBytes = @ + step.instr.length,
                                 !.copyInstructions = @ + 1]
            ELSE [counted EXCEPT !.insertBytes = @ + (step.pos - p),
                                 !.insertInstructions = @ + 1]
        Added(step, sum) == InOrder(sum, AnalyzeWalk(index, tgt, step.pos, sum))
        Stepped(step) == Added(step, Counted(step))
    IN  IF p >= tgt.length THEN counted ELSE Stepped(WalkStep(index, tgt, p))
analyzeDelta(src, tgt) ==
    LET Returned(counted) ==
            [counted EXCEPT !.err = "", !.sourceSize = src.length,
                            !.targetSize = tgt.length,
                            !.totalInstructions =
                                counted.copyInstructions + counted.insertInstructions]
        Analyzed(index) ==
            IF index.err # "" THEN [NoStats EXCEPT !.err = index.err]
            ELSE Returned(AnalyzeWalk(index, tgt, 0, NoStats))
    IN  Analyzed(DeltaIndex(src))

\* writeVarInt: the bytes pushed for value
RECURSIVE writeVarInt(_)
writeVarInt(value) ==
    IF value \div 128 > 0
    THEN <<BitOr(value % 128, 128)>> \o writeVarInt(value \div 128)
    ELSE <<value % 128>>

\* encodeCopyInstruction: the bytes pushed (the code byte first)
encodeCopyInstruction(offset, length) ==
    LET o0 == offset % 256
        o1 == (offset \div 256) % 256
        o2 == (offset \div 65536) % 256
        o3 == (offset \div 16777216) % 256
        l0 == length % 256
        l1 == (length \div 256) % 256
        l2 == (length \div 65536) % 256
        pushed == (IF o0 # 0 THEN <<o0>> ELSE <<>>) \o (IF o1 # 0 THEN <<o1>> ELSE <<>>)
                  \o (IF o2 # 0 THEN <<o2>> ELSE <<>>) \o (IF o3 # 0 THEN <<o3>> ELSE <<>>)
                  \o (IF l0 # 0 THEN <<l0>> ELSE <<>>) \o (IF l1 # 0 THEN <<l1>> ELSE <<>>)
                  \o (IF l2 # 0 THEN <<l2>> ELSE <<>>)
        code == 128 + (IF o0 # 0 THEN 1 ELSE 0) + (IF o1 # 0 THEN 2 ELSE 0)
                + (IF o2 # 0 THEN 4 ELSE 0) + (IF o3 # 0 THEN 8 ELSE 0)
                + (IF l0 # 0 THEN 16 ELSE 0) + (IF l1 # 0 THEN 32 ELSE 0)
                + (IF l2 # 0 THEN 64 ELSE 0)
        cleared == IF length = COPY_LENGTH_64K THEN BitAnd(code, 143) ELSE code
    IN  <<cleared>> \o pushed

\* encodeInsertInstruction: err is set when it throws
encodeInsertInstruction(data) ==
    IF Len(data) = 0 THEN [err |-> "INSERT length cannot be 0", bytes |-> <<>>]
    ELSE IF Len(data) > MAX_INSERT_LENGTH
    THEN [err |-> "INSERT length exceeds max", bytes |-> <<>>]
    ELSE [err |-> "", bytes |-> <<Len(data) % 128>> \o data]

RECURSIVE EncodeInstructions(_, _, _)
EncodeInstructions(instrs, k, acc) ==
    IF acc.err # "" \/ k > Len(instrs) THEN acc
    ELSE IF instrs[k].type = "COPY"
    THEN EncodeInstructions(instrs, k + 1,
             [err |-> "",
              bytes |-> acc.bytes \o encodeCopyInstruction(instrs[k].srcOffset,
                                                             instrs[k].length)])
    ELSE LET Inserted(ins) ==
                 EncodeInstructions(instrs, k + 1,
                     [err |-> ins.err, bytes |-> acc.bytes \o ins.bytes])
         IN  Inserted(encodeInsertInstruction(instrs[k].data))

\* encodeDelta: the delta as a Buffer, or the error thrown
encodeDelta(sourceSize, targetSize, instrs) ==
    LET Encoded(r) == [err |-> r.err, buf |-> Buf(r.bytes)]
    IN  Encoded(EncodeInstructions(instrs, 1,
                [err |-> "", bytes |-> writeVarInt(sourceSize) \o writeVarInt(targetSize)]))

\* createDelta(source, target)
createDelta(src, tgt) ==
    LET Walked(index, instrs) ==
            IF tgt.length = 0 THEN <<>>
            ELSE IF index.err # "" THEN <<>>
            ELSE instrs
        Made(index, encoded) ==
            IF tgt.length # 0 /\ index.err # "" THEN [err |-> index.err, buf |-> EmptyBuf]
            ELSE encoded
    IN  Made(DeltaIndex(src),
             encodeDelta(src.length, tgt.length,
                         Walked(DeltaIndex(src), Walk(DeltaIndex(src), tgt, 0, <<>>))))

(***************************************************************************)
(* Delta applier                                                           *)
(***************************************************************************)
\* A little-endian base-128 number read at position p (counted from 1):
\* its value and the position after it; next = 0 when the bytes run out
RECURSIVE ReadVarInt(_, _, _, _)
ReadVarInt(bytes, p, shift, acc) ==
    IF p > Len(bytes) THEN [value |-> acc, next |-> 0]
    ELSE LET v == acc + (bytes[p] % 128) * shift
         IN  IF bytes[p] >= 128 THEN ReadVarInt(bytes, p + 1, shift * 128, v)
             ELSE [value |-> v, next |-> p + 1]

\* The bytes of a COPY instruction gated by the bits of the code byte c,
\* from position p: the offset, the length and the position after them
CopyOperands(bytes, c, p) ==
    LET Bit(k) == (c \div Pow2(k)) % 2 = 1
        Cnt(k) == Cardinality({j \in 0..(k - 1) : Bit(j)})
        Operand(k) == IF Bit(k) THEN bytes[p + Cnt(k)] ELSE 0
        n == Cnt(7)
    IN  IF p + n - 1 > Len(bytes) THEN [ok |-> FALSE, offset |-> 0, length |-> 0, next |-> 0]
        ELSE [ok |-> TRUE,
              offset |-> Operand(0) + 256 * Operand(1) + 65536 * Operand(2)
                         + 16777216 * Operand(3),
              length |-> Operand(4) + 256 * Operand(5) + 65536 * Operand(6),
              next |-> p + n]

RECURSIVE ApplyInstructions(_, _, _, _)
ApplyInstructions(src, bytes, p, out) ==
    LET Then(next, appended) ==
            InOrder(Len(appended), ApplyInstructions(src, bytes, next, appended))
        Copy(ops, length) ==
            IF ~ops.ok THEN [err |-> "TruncatedDelta", out |-> out]
            ELSE IF ops.offset + length > src.length THEN [err |-> "InvalidCopy", out |-> out]
            ELSE Then(ops.next, out \o Slice(src, ops.offset, ops.offset + length))
        Decoded(ops) == Copy(ops, IF ops.length = 0 THEN COPY_LENGTH_64K ELSE ops.length)
        Insert(c) ==
            IF c = 0 THEN [err |-> "InvalidOpcode", out |-> out]
            ELSE IF p + c > Len(bytes) THEN [err |-> "TruncatedDelta", out |-> out]
            ELSE Then(p + 1 + c, out \o SubSeq(bytes, p + 1, p + c))
    IN  IF p > Len(bytes) THEN [err |-> "", out |-> out]
        ELSE IF bytes[p] >= 128 THEN Decoded(CopyOperands(bytes, bytes[p], p + 1))
        ELSE Insert(bytes[p])

\* applyDelta(delta, source): the reconstructed bytes, or the failure
applyDelta(dlt, src) ==
    LET Applied(srcSize, tgtSize, r) ==
            IF srcSize.next = 0 THEN [err |-> "TruncatedDelta", out |-> <<>>]
            ELSE IF srcSize.value # src.length THEN [err |-> "SourceMismatch", out |-> <<>>]
            ELSE IF tgtSize.next = 0 THEN [err |-> "TruncatedDelta", out |-> <<>>]
            ELSE IF r.err # "" THEN [err |-> r.err, out |-> <<>>]
            ELSE IF Len(r.out) < tgtSize.value THEN [err |-> "TruncatedDelta", out |-> <<>>]
            ELSE IF Len(r.out) > tgtSize.value THEN [err |-> "ExtraData", out |-> <<>>]
            ELSE r
        Sized(srcSize, tgtSize) ==
            Applied(srcSize, tgtSize, ApplyInstructions(src, dlt.bytes, tgtSize.next, <<>>))
        Headed(srcSize) == Sized(srcSize, ReadVarInt(dlt.bytes, srcSize.next, 1, 0))
    IN  Headed(ReadVarInt(dlt.bytes, 1, 1, 0))

(***************************************************************************)
(* createDelta followed by applyDelta, one step of the walk at a time      *)
(***************************************************************************)
InsLen == 130
TailLen == 2

Concat3(x, y, z) == Buf(x \o y \o z)

\* The targets tried against a source: a literal head, a slice of the source
\* and a literal tail
SliceBounds(src) ==
    {<<0, 0>>, <<0, src.length>>, <<Min2(3, src.length), src.length>>,
     <<0, Min2(RABIN_WINDOW - 1, src.length)>>,
     <<Min2(1, src.length), Min2(RABIN_WINDOW + 4, src.length)>>}
SmallTargets(src) ==
    {Concat3(Slice(Rep(255, p), 0, p), Slice(src, b[1], b[2]), Slice(Rep(254, q), 0, q)) :
        p \in {0, 1, InsLen}, b \in SliceBounds(src), q \in {0, TailLen}}
BigTargets(src) == {src}

DeltaInputs ==
    UNION {{[s |-> src, t |-> tgt] : tgt \in SmallTargets(src)} : src \in SmallSources}
    \cup {[s |-> BinarySource, t |-> BinaryTarget]}
    \cup UNION {{[s |-> src, t |-> tgt] : tgt \in BigTargets(src)} : src \in BigSources}

NoIndex == [err |-> "", source |-> EmptyBuf, entries |-> 0]
NotApplied == [err |-> "none", out |-> <<>>]

\* What the caller of an async function holds: nothing yet, the array the
\* function returned, or a rejection, with which no chunk of the local
\* outputStream reaches the caller
pending == [status |-> "pending", chunks |-> <<>>]
fulfilled(stream) == [status |-> "fulfilled", chunks |-> stream]
rejectedWithChunks(stream) == [status |-> "rejected", chunks |-> stream]
rejected(stream) == [status |-> "rejected", chunks |-> <<>>]

DeltaIdle ==
    /\ source = EmptyBuf /\ target = EmptyBuf /\ dpc = "idle" /\ dindex = NoIndex
    /\ pos = 0 /\ instructions = <<>> /\ delta = EmptyBuf /\ restored = NotApplied
    /\ stats = NoStats

PackIdle ==
    /\ oids = <<>> /\ enableDelta = FALSE /\ ppc = "idle" /\ objects = <<>>
    /\ sortedObjects = <<>> /\ idx = 0 /\ outputStream = <<>> /\ hashData = <<>>
    /\ packOffsets = <<>> /\ processedOids = {} /\ entryLog = <<>> /\ packError = ""
    /\ returned = pending

EncIdle ==
    /\ encKind = "idle" /\ encN = WideOf(0) /\ encM = 0 /\ encBytes = <<>>
    /\ encDone = FALSE

SudIdle == sudBase = 0 /\ sudTarget = 0 /\ sudDelta = 0 /\ sudResult = "idle"

InitDelta ==
    /\ \E inp \in DeltaInputs : source = inp.s /\ target = inp.t
    /\ dpc = "start" /\ dindex = NoIndex /\ pos = 0 /\ instructions = <<>>
    /\ delta = EmptyBuf /\ restored = NotApplied /\ stats = NoStats
    /\ PackIdle /\ EncIdle /\ SudIdle /\ RestIdle

\* createDelta up to the walk: the empty target is encoded at once, otherwise
\* the dindex of the source is built
DeltaStart ==
    /\ dpc = "start"
    /\ IF target.length = 0
       THEN LET r == encodeDelta(source.length, 0, <<>>)
            IN  /\ delta' = r.buf
                /\ dpc' = IF r.err = "" THEN "encoded" ELSE "failed"
                /\ UNCHANGED dindex
       ELSE LET ix == DeltaIndex(source)
            IN  /\ dindex' = ix
                /\ dpc' = IF ix.err = "" THEN "walk" ELSE "failed"
                /\ UNCHANGED delta
    /\ UNCHANGED <<source, target, pos, instructions, restored, stats>>

\* One iteration of the walk that finds a match and pushes a COPY
DeltaCopy ==
    /\ dpc = "walk" /\ pos < target.length
    /\ \E step \in {WalkStep(dindex, target, pos)} :
           /\ step.instr.type = "COPY"
           /\ instructions' = Append(instructions, step.instr)
           /\ pos' = step.pos
    /\ UNCHANGED <<source, target, dpc, dindex, delta, restored, stats>>

\* One iteration of the walk that finds no match and pushes an INSERT
DeltaInsert ==
    /\ dpc = "walk" /\ pos < target.length
    /\ \E step \in {WalkStep(dindex, target, pos)} :
           /\ step.instr.type = "INSERT"
           /\ instructions' = Append(instructions, step.instr)
           /\ pos' = step.pos
    /\ UNCHANGED <<source, target, dpc, dindex, delta, restored, stats>>

\* The end of the walk: the instructions are encoded
DeltaEncode ==
    /\ dpc = "walk" /\ pos >= target.length
    /\ LET r == encodeDelta(source.length, target.length, instructions)
       IN  /\ delta' = r.buf
           /\ dpc' = IF r.err = "" THEN "encoded" ELSE "failed"
    /\ UNCHANGED <<source, target, dindex, pos, instructions, restored, stats>>

\* applyDelta(delta, source)
DeltaApply ==
    /\ dpc = "encoded"
    /\ restored' = applyDelta(delta, source)
    /\ dpc' = "applied"
    /\ UNCHANGED <<source, target, dindex, pos, instructions, delta, stats>>

\* analyzeDelta(source, target)
DeltaAnalyze ==
    /\ dpc = "start"
    /\ stats' = analyzeDelta(source, target)
    /\ dpc' = "analyzed"
    /\ UNCHANGED <<source, target, dindex, pos, instructions, delta, restored>>

NextDelta ==
    \/ (DeltaStart /\ UNCHANGED <<packVars, encVars, sudVars, restVars>>)
    \/ (DeltaCopy /\ UNCHANGED <<packVars, encVars, sudVars, restVars>>)
    \/ (DeltaInsert /\ UNCHANGED <<packVars, encVars, sudVars, restVars>>)
    \/ (DeltaEncode /\ UNCHANGED <<packVars, encVars, sudVars, restVars>>)
    \/ (DeltaApply /\ UNCHANGED <<packVars, encVars, sudVars, restVars>>)
    \/ (DeltaAnalyze /\ UNCHANGED <<packVars, encVars, sudVars, restVars>>)

SpecDelta == InitDelta /\ [][NextDelta]_vars

\* The target positions at which the index is queried: every position once
\* the index of a short target is built, the position of the walk otherwise
QueryPositions ==
    IF pos = 0 /\ target.length < COPY_LENGTH_64K THEN 0..target.length ELSE {pos}

\* A match lies within both buffers, is at least a window long, and the
\* bytes of source and target under it are the same
SoundMatch(p, m) ==
    /\ m.length >= RABIN_WINDOW /\ m.srcOffset >= 0
    /\ m.srcOffset + m.length <= source.length
    /\ p + m.length <= target.length
    /\ \A i \in 0..(m.length - 1) : At(source, m.srcOffset + i) = At(target, p + i)

\* C13: every match that findMatch returns, and every match in the result
\* of findAllMatches, is at least 16 bytes long, lies within source and
\* target, and covers equal bytes
C13_IndexSound ==
    dpc = "walk" =>
        \A p \in QueryPositions :
            /\ \E m \in {findMatch(dindex, target, p)} : m # NoMatch => SoundMatch(p, m)
            /\ \E all \in {findAllMatches(dindex, target, p)} :
                   \A k \in 1..Len(all) : SoundMatch(p, all[k])

\* A target with a query that has several matches and a query whose chain
\* holds only offsets that share the hash and not the bytes
C13_Witness ==
    /\ dpc = "walk" /\ pos = 0 /\ source = Rep(97, MidLen)
    /\ \E p \in QueryPositions :
           /\ findMatch(dindex, target, p) # NoMatch
           /\ Len(findAllMatches(dindex, target, p)) > 1
    /\ \E p \in 0..(target.length - RABIN_WINDOW) :
           /\ findMatch(dindex, target, p) = NoMatch
           /\ HashTableGet(dindex, computeRabinHash(target, p, RABIN_WINDOW)) # <<>>

\* The source offsets at which a window starts, and whether the window of
\* the source at o is the window of the target at p
WindowOffsets == 0..(source.length - RABIN_WINDOW)
SameWindow(o, p) ==
    \A i \in 0..(RABIN_WINDOW - 1) : At(source, o + i) = At(target, p + i)

\* The chain of the index in which offset o of the source was entered
ChainOf(o) == HashTableGet(dindex, computeRabinHash(source, o, RABIN_WINDOW))

\* C14: a target window that occurs in the source gets a match of at least
\* 16 bytes; the index holds one entry for each offset 0 .. len(source) - 16
\* (none for a source below 16 bytes), each in the chain of its window's
\* hash, and every chain is in increasing offset order
C14_IndexComplete ==
    dpc = "walk" =>
        /\ \A p \in QueryPositions :
               (p + RABIN_WINDOW <= target.length /\ \E o \in WindowOffsets : SameWindow(o, p))
                   => findMatch(dindex, target, p).length >= RABIN_WINDOW
        /\ dindex.entries = Cardinality(WindowOffsets)
        /\ (pos = 0 /\ source.length < COPY_LENGTH_64K) =>
               \A o \in WindowOffsets :
                   \E chain \in {ChainOf(o)} :
                       /\ Cardinality({k \in 1..Len(chain) : chain[k] = o}) = 1
                       /\ \A k \in 1..(Len(chain) - 1) : chain[k] < chain[k + 1]
                       /\ \A k \in 1..Len(chain) : chain[k] \in WindowOffsets

\* An index with one chain of all its offsets, queried where the target has
\* a window of the source
C14_Witness ==
    /\ dpc = "walk" /\ pos = 0
    /\ dindex.entries > 1 /\ Len(ChainOf(0)) = dindex.entries
    /\ \E p \in QueryPositions : p > 0 /\ findMatch(dindex, target, p).srcOffset = 0

\* The chain looked up for the window of the target at p, and the length of
\* the match of the target at p with the source at o
ChainAt(p) == HashTableGet(dindex, computeRabinHash(target, p, RABIN_WINDOW))
Extended(o, p) == matchLength(source, o, target, p)

\* The longest length in a sequence of matches
LongestIn(all) ==
    IF all = <<>> THEN 0
    ELSE CHOOSE n \in {all[k].length : k \in 1..Len(all)} :
             \A k \in 1..Len(all) : all[k].length <= n

\* C23: findMatch returns the longest match over the offsets of the chain of
\* the target window, as long as the longest match of findAllMatches, and of
\* the longest matches the one at the smallest source offset; the index of a
\* buffer of 16 bytes or more, queried with that buffer at 0, gives the
\* whole buffer at offset 0
C23_LongestFirstMatch ==
    dpc = "walk" =>
        /\ \A p \in QueryPositions \cap 0..(target.length - RABIN_WINDOW) :
               \E m \in {findMatch(dindex, target, p)}, chain \in {ChainAt(p)} :
                   /\ m.length = LongestIn(findAllMatches(dindex, target, p))
                   /\ \A k \in 1..Len(chain) :
                          /\ Extended(chain[k], p) >= RABIN_WINDOW =>
                                 Extended(chain[k], p) <= m.length
                          /\ (Extended(chain[k], p) >= RABIN_WINDOW
                                 /\ Extended(chain[k], p) = m.length) =>
                                 m.srcOffset <= chain[k]
                   /\ m # NoMatch =>
                          \E k \in 1..Len(chain) : chain[k] = m.srcOffset
        /\ source.length >= RABIN_WINDOW =>
               findMatch(dindex, source, 0) = [srcOffset |-> 0, length |-> source.length]

\* A query with several matches of the longest length, of which the one at
\* the smallest offset is not at the start of the source
C23_Witness ==
    /\ dpc = "walk" /\ pos = 0
    /\ \E p \in QueryPositions \cap 0..(target.length - RABIN_WINDOW) :
           \E m \in {findMatch(dindex, target, p)}, all \in {findAllMatches(dindex, target, p)} :
               /\ Len(all) > 2 /\ m = all[1]
               /\ all[2].length = m.length /\ all[3].length < m.length

\* The position of the target at which instruction k of the walk starts
RECURSIVE InstrStart(_)
InstrStart(k) == IF k <= 1 THEN 0 ELSE InstrStart(k - 1) + instructions[k - 1].length

\* C17: every INSERT pushed by createDelta carries 1 to 127 bytes, the bytes
\* of the target at the place the walk had reached, so that an unmatched
\* region longer than 127 bytes becomes consecutive INSERTs; the encoding of
\* the instructions never fails on the length of an INSERT
C17_InsertLengthBounded ==
    /\ InstrStart(Len(instructions) + 1) = pos
    /\ \A k \in 1..Len(instructions) :
           instructions[k].type = "INSERT" =>
               /\ Len(instructions[k].data) >= 1
               /\ Len(instructions[k].data) <= MAX_INSERT_LENGTH
               /\ encodeInsertInstruction(instructions[k].data).err = ""
               /\ instructions[k].data
                      = Slice(target, InstrStart(k), InstrStart(k + 1))
    /\ dpc = "failed" => dindex.err # ""

C17_Witness ==
    /\ dpc = "applied" /\ Len(instructions) >= 3
    /\ instructions[1].type = "INSERT" /\ instructions[2].type = "INSERT"
    /\ Len(instructions[1].data) = MAX_INSERT_LENGTH
    /\ Len(instructions[2].data) = InsLen - MAX_INSERT_LENGTH
    /\ instructions[3].type = "COPY"

\* C15: every COPY instruction of createDelta has a length from 1 to 0x10000
C15_CopyLengthBounded ==
    \A k \in 1..Len(instructions) :
        instructions[k].type = "COPY" =>
            instructions[k].length >= 1 /\ instructions[k].length <= COPY_LENGTH_64K

\* C26: for the source 0..9 and the target 0, 1, 2, 99, 4..11 the delta of
\* createDelta applies to the target and holds at least one COPY
C26_BinaryDataHasCopy ==
    (dpc = "applied" /\ source = BinarySource /\ target = BinaryTarget) =>
        /\ restored.err = "" /\ restored.out = target.bytes
        /\ \E k \in 1..Len(instructions) : instructions[k].type = "COPY"

\* C1: applying createDelta(S, T) to S reconstructs exactly T
C1_RoundTrip ==
    dpc = "applied" => restored.err = "" /\ restored.out = Slice(target, 0, target.length)

(***************************************************************************)
(* Pack writer: the chunks pushed to outputStream.  A chunk is a Buffer    *)
(* with the way it was made: written bytes, the deflate of a buffer (whose *)
(* bytes are not modelled, only their number), or the SHA-1 digest of a    *)
(* sequence of chunks.                                                     *)
(***************************************************************************)
RawChunk(bytes) ==
    [kind |-> "raw", length |-> Len(bytes), bytes |-> bytes, fill |-> 0, of |-> <<>>]
BufferChunk(buf) ==
    [kind |-> "raw", length |-> buf.length, bytes |-> buf.bytes, fill |-> buf.fill,
     of |-> <<>>]

\* The number of bytes of deflate(buffer): a zlib stream of stored blocks
DeflateBlock == 65535
DeflatedLength(n) == 2 + 5 * Max2(1, (n + DeflateBlock - 1) \div DeflateBlock) + n + 4
deflate(buf) ==
    [kind |-> "deflate", length |-> DeflatedLength(buf.length), bytes |-> <<>>,
     fill |-> 0, of |-> <<BufferChunk(buf)>>]

\* A faulty Hash: the first update is lost
digestWithoutFirst(chunks) ==
    [kind |-> "sha1", length |-> 20, bytes |-> <<>>, fill |-> 0, of |-> Tail(chunks)]

\* Hash.digest() over the chunks given to Hash.update
digest(chunks) ==
    [kind |-> "sha1", length |-> 20, bytes |-> <<>>, fill |-> 0, of |-> chunks]

\* n.toString(16) as a sequence of hex digits
RECURSIVE toString16(_)
toString16(n) == IF n < 16 THEN <<n>> ELSE Append(toString16(n \div 16), n % 16)

\* padHex(b, n): the hex digits of n, zeros in front up to b digits
padHex(b, n) ==
    LET digits == toString16(n)
    IN  [k \in 1..(b - Len(digits)) |-> 0] \o digits

\* Buffer.from(chunk, 'hex'): one byte for every two digits, a last single
\* digit is dropped
fromHex(digits) ==
    [k \in 1..(Len(digits) \div 2) |-> digits[2 * k - 1] * 16 + digits[2 * k]] \o <<>>

\* types[stype]: the type code in bits 4..6
types(stype) ==
    CASE stype = "commit" -> 16
      [] stype = "tree" -> 32
      [] stype = "blob" -> 48
      [] stype = "tag" -> 64

\* The while (multibyte) loop of the header writers: the chunks written for
\* what is left of the length
RECURSIVE sizeChunks(_, _)
sizeChunks(multibyte, length) ==
    IF multibyte = 0 THEN <<>>
    ELSE LET more == IF length > 127 THEN 128 ELSE 0
             byte == BitOr(more, length % 128)
         IN  <<RawChunk(fromHex(padHex(2, byte)))>> \o sizeChunks(more, length \div 128)

\* A faulty header writer: the low bits of the length are taken with the
\* mask 0b111
typeAndSizeMasked(type, length) ==
    LET multibyte == IF length.hi > 0 \/ length.lo > 15 THEN 128 ELSE 0
        lastFour == length.lo % 8
        shifted == length.hi * 4096 + length.lo \div 16
        byte == toString16(BitOr(BitOr(multibyte, type), lastFour))
    IN  <<RawChunk(fromHex(byte))>> \o sizeChunks(multibyte, shifted)

\* The type-and-size header as writeObject and writeOfsDelta write it, for a
\* length below 2^32 held as a wide number
typeAndSize(type, length) ==
    LET multibyte == IF length.hi > 0 \/ length.lo > 15 THEN 128 ELSE 0
        lastFour == length.lo % 16
        shifted == length.hi * 4096 + length.lo \div 16
        byte == toString16(BitOr(BitOr(multibyte, type), lastFour))
    IN  <<RawChunk(fromHex(byte))>> \o sizeChunks(multibyte, shifted)

\* writeObject: the chunks it writes
writeObject(stype, object) ==
    typeAndSize(types(stype), WideOf(object.length)) \o <<deflate(object)>>

\* The bytes of offsetBytes after the first, in the order pushed
RECURSIVE moreOffsetBytes(_)
moreOffsetBytes(tmp) ==
    IF tmp > 0 THEN <<BitOr(128, tmp % 128)>> \o moreOffsetBytes(tmp \div 128)
    ELSE <<>>

\* The back-reference of writeOfsDelta: offsetBytes written in reverse order
offsetChunks(relativeOffset) ==
    LET offsetBytes == <<relativeOffset % 128>> \o moreOffsetBytes(relativeOffset \div 128)
        n == Len(offsetBytes)
    IN  [k \in 1..n |-> RawChunk(fromHex(padHex(2, offsetBytes[n + 1 - k])))]

\* OFS_DELTA type = 6, as writeOfsDelta puts it in the first byte
OFS_DELTA_TYPE == 6

\* writeOfsDelta at the offset reached: the chunks it writes
writeOfsDelta(offset, baseOffset, dlt) ==
    typeAndSize(OFS_DELTA_TYPE, WideOf(dlt.length))
    \o offsetChunks(offset - baseOffset) \o <<deflate(dlt)>>

\* The sum of the lengths of chunks[lo .. hi]
RECURSIVE SumLengths(_, _, _)
SumLengths(chunks, lo, hi) ==
    IF hi < lo THEN 0
    ELSE IF hi = lo THEN chunks[lo].length
    ELSE LET mid == (lo + hi) \div 2
         IN  SumLengths(chunks, lo, mid) + SumLengths(chunks, mid + 1, hi)

\* A faulty getCurrentOffset: outputStream.length, the number of chunks
chunkCount(stream) == Len(stream)

\* getCurrentOffset
getCurrentOffset(stream) == SumLengths(stream, 1, Len(stream))

(***************************************************************************)
(* Base-selection heuristics.  An object is a record of its oid (a         *)
(* sequence of hex digits), type, data and depth; pack.js gives it no      *)
(* path.                                                                   *)
(***************************************************************************)
\* a / b < c / d for b > 0 and d > 0, by whole parts and remainders
RECURSIVE FracLess(_, _, _, _)
FracLess(a, b, c, d) ==
    IF a \div b # c \div d THEN a \div b < c \div d
    ELSE IF c % d = 0 THEN FALSE
    ELSE IF a % b = 0 THEN TRUE
    ELSE FracLess(d, c % d, b, a % b)

Abs(n) == IF n < 0 THEN -n ELSE n

\* computeSimilarityScore(base, target), the score kept as exact parts:
\* 30 * (1 - sizeOff / targetLen) + 30 * matching / prefixLen
\*   + 20 * (1 - depth / MAX_DELTA_CHAIN_DEPTH)
computeSimilarityScore(base, tgt) ==
    LET prefixLen == Min2(100, Min2(base.data.length, tgt.data.length))
    IN  [sizeOff |-> Min2(Abs(base.data.length - tgt.data.length), tgt.data.length),
         targetLen |-> tgt.data.length,
         matching |-> Cardinality({i \in 0..(prefixLen - 1) :
                                      At(base.data, i) = At(tgt.data, i)}),
         prefixLen |-> prefixLen,
         depth |-> base.depth]

\* a.score < b.score for two scores against the same target, that is
\*   (b.sizeOff - a.sizeOff) / targetLen
\*     < (b.matching / b.prefixLen - a.matching / a.prefixLen)
\*       + 2 * (a.depth - b.depth) / (3 * MAX_DELTA_CHAIN_DEPTH)
ScoreLess(a, b) ==
    LET p == a.prefixLen * b.prefixLen
    IN  FracLess(b.sizeOff - a.sizeOff, a.targetLen,
                 3 * MAX_DELTA_CHAIN_DEPTH
                   * (b.matching * a.prefixLen - a.matching * b.prefixLen)
                 + 2 * p * (a.depth - b.depth),
                 3 * MAX_DELTA_CHAIN_DEPTH * p)

NoBase == [oid |-> <<>>, type |-> "", data |-> EmptyBuf, depth |-> 0]

\* A faulty filter: the depth of a candidate is not looked at
SuitableAtAnyDepth(candidate, tgt) ==
    /\ candidate.type = tgt.type
    /\ ~(Max2(candidate.data.length, tgt.data.length)
           > 2 * Min2(candidate.data.length, tgt.data.length))

\* The filter of findDeltaBase
Suitable(candidate, tgt) ==
    /\ candidate.type = tgt.type
    /\ ~(candidate.depth # 0 /\ candidate.depth >= MAX_DELTA_CHAIN_DEPTH)
    /\ ~(Max2(candidate.data.length, tgt.data.length)
           > 2 * Min2(candidate.data.length, tgt.data.length))

\* findDeltaBase(target, candidates): the first of the suitable candidates
\* with the highest score (the sort is stable); NoBase stands for null
findDeltaBase(tgt, candidates) ==
    IF tgt.data.length < MIN_SIZE_FOR_DELTA THEN NoBase
    ELSE LET IsSuitable(c) == Suitable(c, tgt)
             suitable == SelectSeq(candidates, IsSuitable)
             score == [k \in 1..Len(suitable) |-> computeSimilarityScore(suitable[k], tgt)]
             best == CHOOSE k \in 1..Len(suitable) :
                         /\ \A j \in 1..Len(suitable) : ~ScoreLess(score[k], score[j])
                         /\ \A j \in 1..(k - 1) : ScoreLess(score[j], score[k])
         IN  IF Len(suitable) = 0 THEN NoBase ELSE suitable[best]

\* The targets and the candidates of findDeltaBase in the runs below: both
\* kinds, sizes on either side of MIN_SIZE_FOR_DELTA and of the size band,
\* depths on either side of MAX_DELTA_CHAIN_DEPTH
MaxCandidates == 2
FdbObject(n, type, size, depth) ==
    [oid |-> <<14, 0, 0, n>>, type |-> type, data |-> Rep(97, size), depth |-> depth]
FdbTargets ==
    {FdbObject(0, type, size, 0) :
        type \in {"blob", "tree"},
        size \in {MIN_SIZE_FOR_DELTA - 1, MIN_SIZE_FOR_DELTA, 100}}
FdbCandidateLists ==
    UNION {[1..n -> {FdbObject(1, c[1], c[2], c[3]) :
                        c \in {"blob", "tree"} \X {0, 49, 50, 200, 201}
                              \X {0, MAX_DELTA_CHAIN_DEPTH}}] :
           n \in 0..MaxCandidates}

InitFdb ==
    /\ fdbTarget \in FdbTargets
    /\ fdbCandidates \in FdbCandidateLists
    /\ fdbResult = [done |-> FALSE, base |-> NoBase]

\* findDeltaBase(target, candidates)
FdbCall ==
    /\ ~fdbResult.done
    /\ fdbResult' = [done |-> TRUE, base |-> findDeltaBase(fdbTarget, fdbCandidates)]
    /\ UNCHANGED <<fdbTarget, fdbCandidates>>

\* The types of the objects in the order in which groupObjectsByType meets them
RECURSIVE TypesInOrder(_)
TypesInOrder(objs) ==
    IF objs = <<>> THEN <<>>
    ELSE LET first == Head(objs).type
             Other(o) == o.type # first
         IN  <<first>> \o TypesInOrder(SelectSeq(Tail(objs), Other))

\* The numbers of a finite set in ascending order
RECURSIVE Ascending(_)
Ascending(set) ==
    IF set = {} THEN <<>>
    ELSE LET least == CHOOSE x \in set : \A y \in set : x <= y
         IN  <<least>> \o Ascending(set \ {least})

\* A faulty sort: the group is left in the order of insertion
InsertionOrder(objs) == objs

\* group.sort((a, b) => a.data.length - b.data.length), a stable sort
RECURSIVE SortBySize(_)
SortBySize(objs) ==
    IF objs = <<>> THEN <<>>
    ELSE LET sizes == {objs[k].data.length : k \in 1..Len(objs)}
             least == CHOOSE x \in sizes : \A y \in sizes : x <= y
             Least(o) == o.data.length = least
             Rest(o) == o.data.length # least
         IN  SelectSeq(objs, Least) \o SortBySize(SelectSeq(objs, Rest))

\* obj.oid.slice(0, 2) as a number: hex digits sort as their values do
PathKey(obj) == obj.oid[1] * 16 + obj.oid[2]

RECURSIVE ConcatAll(_)
ConcatAll(seqs) == IF seqs = <<>> THEN <<>> ELSE Head(seqs) \o ConcatAll(Tail(seqs))

\* sortBySimilarity(objects)
sortBySimilarity(objs) ==
    LET sortedKeys == Ascending({PathKey(objs[k]) : k \in 1..Len(objs)})
        Group(key) == LET HasKey(o) == PathKey(o) = key IN SelectSeq(objs, HasKey)
    IN  ConcatAll([k \in 1..Len(sortedKeys) |-> SortBySize(Group(sortedKeys[k]))])

\* groupObjectsByType followed by the loop that sorts every group
groupAndSort(objs) ==
    LET kinds == TypesInOrder(objs)
        OfType(t) == LET HasType(o) == o.type = t IN SelectSeq(objs, HasType)
    IN  ConcatAll([k \in 1..Len(kinds) |-> sortBySimilarity(OfType(kinds[k]))])

\* selectCandidateWindow(objects, currentIndex, windowSize), currentIndex
\* counted from 0
selectCandidateWindow(objs, currentIndex, windowSize) ==
    SubSeq(objs, Max2(0, currentIndex - windowSize) + 1, currentIndex)

\* A faulty shouldUseDelta: a delta of exactly half the target is accepted
shouldUseDeltaAtHalf(baseLen, targetLen, deltaLen) ==
    IF 2 * deltaLen > targetLen THEN FALSE
    ELSE IF deltaLen >= baseLen THEN FALSE
    ELSE TRUE

\* shouldUseDelta(baseData, targetData, deltaData)
shouldUseDelta(baseLen, targetLen, deltaLen) ==
    IF 2 * deltaLen >= targetLen THEN FALSE
    ELSE IF deltaLen >= baseLen THEN FALSE
    ELSE TRUE

(***************************************************************************)
(* _pack and _packWithDelta on a list of oids, one loop iteration at a     *)
(* time                                                                    *)
(***************************************************************************)
MaxOids == 3

OidA == <<10, 0, 0, 1>>
OidB == <<10, 0, 0, 2>>
OidC == <<10, 0, 0, 3>>
OidE == <<10, 0, 0, 4>>
OidT == <<11, 0, 0, 1>>
OidK == <<11, 0, 0, 2>>
OidG == <<11, 0, 0, 3>>
OidU == <<13, 0, 0, 1>>
OidV == <<13, 0, 0, 2>>
OidH1 == <<14, 0, 0, 1>>
OidH2 == <<14, 0, 0, 2>>
OidX == <<15, 0, 0, 1>>
OidMissing == <<15, 0, 0, 2>>
OidChain(k) == <<12, 0, k \div 16, k % 16>>

\* The object store behind readObject
Stored(oid, type, object) == [oid |-> oid, type |-> type, object |-> object]
ObjectStore ==
    {Stored(OidA, "blob", PayloadA), Stored(OidB, "blob", PayloadB),
     Stored(OidC, "blob", PayloadC), Stored(OidE, "blob", PayloadE),
     Stored(OidT, "tree", PayloadA), Stored(OidK, "commit", PayloadB),
     Stored(OidG, "tag", PayloadE),
     Stored(OidU, "blob", PayloadU), Stored(OidV, "blob", PayloadV),
     Stored(OidH1, "blob", PayloadH1), Stored(OidH2, "blob", PayloadH2),
     Stored(OidX, "blob", PayloadX)}
    \cup {Stored(OidChain(k), "blob", PayloadChain(k)) : k \in 1..ChainLen}
\* readObject(oid) throws for an oid that is not in the store
readable(oid) == \E r \in ObjectStore : r.oid = oid
readObject(oid) == CHOOSE r \in ObjectStore : r.oid = oid
\* The buffers on which deflate throws
deflateFails(buf) == buf = PayloadX

GeneralOids == {OidA, OidB, OidE, OidT}
ScenarioLists ==
    {<<OidU, OidV>>, <<OidV, OidK, OidU, OidG, OidA>>, <<OidC, OidB, OidA, OidC>>,
     <<OidH1>>, <<OidH1, OidH2>>, <<OidA, OidH2, OidH1>>,
     <<OidA, OidX, OidB>>, <<OidA, OidMissing, OidB>>,
     [k \in 1..ChainLen |-> OidChain(k)]}
OidLists == UNION {[1..n -> GeneralOids] : n \in 0..MaxOids} \cup ScenarioLists

\* The object pushed for an oid by the read loop of _packWithDelta
ReadForDelta(oid) ==
    LET r == readObject(oid)
    IN  [oid |-> oid, type |-> r.type, data |-> r.object, depth |-> 0]

\* write('PACK'); write('00000002', 'hex'); write(padHex(8, count), 'hex')
packHeader(count) ==
    <<RawChunk(<<80, 65, 67, 75>>), RawChunk(fromHex(<<0, 0, 0, 0, 0, 0, 0, 2>>)),
      RawChunk(fromHex(padHex(8, count)))>>

\* A faulty writer: writeOfsDelta sets packOffsets as writeObject does
recordsOffsetAlways(kind) == kind \in {"full", "ofs"}

\* Which of the two entry writers of _packWithDelta sets packOffsets
recordsOffset(kind) == kind = "full"

\* What one iteration of the loop of _packWithDelta does with the object at
\* index i (counted from 0) that has not been processed yet
AttemptWith(tgt, base, offsets) ==
    LET Decided(made) ==
            IF made.err # ""
            THEN [kind |-> "throw", err |-> made.err, base |-> base, delta |-> EmptyBuf]
            ELSE IF shouldUseDelta(base.data.length, tgt.data.length, made.buf.length)
            THEN [kind |-> "ofs", err |-> "", base |-> base, delta |-> made.buf]
            ELSE [kind |-> "full", err |-> "", base |-> base, delta |-> made.buf]
    IN  IF base # NoBase /\ base.oid \in DOMAIN offsets
        THEN Decided(createDelta(base.data, tgt.data))
        ELSE [kind |-> "full", err |-> "", base |-> base, delta |-> EmptyBuf]
\* A faulty iteration: the base is looked for among the candidates that have
\* an offset
AttemptAmongWritten(sorted, i, offsets) ==
    LET Written(c) == c.oid \in DOMAIN offsets
    IN  AttemptWith(sorted[i + 1],
                    findDeltaBase(sorted[i + 1],
                                  SelectSeq(selectCandidateWindow(sorted, i, WINDOW_SIZE),
                                            Written)),
                    offsets)
Attempt(sorted, i, offsets) ==
    AttemptWith(sorted[i + 1],
                findDeltaBase(sorted[i + 1], selectCandidateWindow(sorted, i, WINDOW_SIZE)),
                offsets)

\* The entry written at the end of outputStream, as the log keeps it: the
\* offset the writer took for it, its chunks outputStream[first .. first +
\* count - 1] of which the first `header` are the type-and-size header, the
\* offset of its base and the lengths of base, target and payload
Entry(oid, kind, stype, start, first, count, header, baseStart, baseLen, targetLen, size) ==
    [oid |-> oid, kind |-> kind, stype |-> stype, start |-> start, first |-> first,
     count |-> count, header |-> header, baseStart |-> baseStart, baseLen |-> baseLen,
     targetLen |-> targetLen, size |-> size]

InitPack ==
    /\ oids \in OidLists /\ enableDelta \in BOOLEAN
    /\ ppc = "start" /\ objects = <<>> /\ sortedObjects = <<>> /\ idx = 0
    /\ outputStream = <<>> /\ hashData = <<>> /\ packOffsets = <<>>
    /\ processedOids = {} /\ entryLog = <<>> /\ packError = ""
    /\ returned = pending

\* The chunks of an entry written before its body is deflated
BeforeDeflate(chunks) == SubSeq(chunks, 1, Len(chunks) - 1)

\* _pack up to its loop: the header with oids.length
PlainStart ==
    /\ ppc = "start" /\ ~enableDelta
    /\ outputStream' = outputStream \o packHeader(Len(oids))
    /\ hashData' = hashData \o packHeader(Len(oids))
    /\ ppc' = "plain"
    /\ UNCHANGED <<oids, enableDelta, objects, sortedObjects, idx, packOffsets,
                   processedOids, entryLog, packError, returned>>

\* One iteration of the loop of _pack: readObject and writeObject
PlainObject ==
    /\ ppc = "plain" /\ idx < Len(oids)
    /\ readable(oids[idx + 1])
    /\ LET r == readObject(oids[idx + 1])
           chunks == writeObject(r.type, r.object)
       IN  /\ ~deflateFails(r.object)
           /\ outputStream' = outputStream \o chunks
           /\ hashData' = hashData \o chunks
           /\ entryLog' = Append(entryLog,
                  Entry(r.oid, "full", r.type, getCurrentOffset(outputStream),
                        Len(outputStream) + 1, Len(chunks), Len(chunks) - 1, -1, 0,
                        r.object.length, r.object.length))
    /\ idx' = idx + 1
    /\ UNCHANGED <<oids, enableDelta, ppc, objects, sortedObjects, packOffsets,
                   processedOids, packError, returned>>

\* An iteration of the loop of _pack in which readObject throws, or deflate
\* throws after the header of the entry was written: _pack rejects
PlainThrow ==
    /\ ppc = "plain" /\ idx < Len(oids)
    /\ \/ /\ ~readable(oids[idx + 1])
          /\ packError' = "NotFoundError"
          /\ UNCHANGED <<outputStream, hashData>>
          /\ returned' = rejected(outputStream)
       \/ /\ readable(oids[idx + 1])
          /\ \E r \in {readObject(oids[idx + 1])} :
                 /\ deflateFails(r.object)
                 /\ \E written \in {outputStream
                                      \o BeforeDeflate(writeObject(r.type, r.object))} :
                        /\ outputStream' = written
                        /\ hashData' = written
                        /\ returned' = rejected(written)
          /\ packError' = "DeflateError"
    /\ ppc' = "failed"
    /\ UNCHANGED <<oids, enableDelta, objects, sortedObjects, idx, packOffsets,
                   processedOids, entryLog>>

\* The end of _pack: the digest is pushed to outputStream, which is returned
PlainDigest ==
    /\ ppc = "plain" /\ idx = Len(oids)
    /\ \E out \in {Append(outputStream, digest(hashData))} :
           outputStream' = out /\ returned' = fulfilled(out)
    /\ ppc' = "done"
    /\ UNCHANGED <<oids, enableDelta, objects, sortedObjects, idx, hashData,
                   packOffsets, processedOids, entryLog, packError>>

\* _packWithDelta up to its loop: all objects are read, grouped and sorted
\* and the header is written with sortedObjects.length
DeltaPackStart ==
    /\ ppc = "start" /\ enableDelta
    /\ \A k \in 1..Len(oids) : readable(oids[k])
    /\ LET read == [k \in 1..Len(oids) |-> ReadForDelta(oids[k])]
           sorted == groupAndSort(read)
       IN  /\ objects' = read
           /\ sortedObjects' = sorted
           /\ outputStream' = outputStream \o packHeader(Len(sorted))
           /\ hashData' = hashData \o packHeader(Len(sorted))
    /\ ppc' = "loop"
    /\ UNCHANGED <<oids, enableDelta, idx, packOffsets, processedOids, entryLog,
                   packError, returned>>

\* readObject throws in the read loop of _packWithDelta, before anything is
\* written: the objects read so far are kept in objects
DeltaPackReadThrow ==
    /\ ppc = "start" /\ enableDelta
    /\ \E k \in 1..Len(oids) :
           /\ ~readable(oids[k])
           /\ \A j \in 1..(k - 1) : readable(oids[j])
           /\ objects' = [j \in 1..(k - 1) |-> ReadForDelta(oids[j])]
    /\ packError' = "NotFoundError"
    /\ returned' = rejected(outputStream)
    /\ ppc' = "failed"
    /\ UNCHANGED <<oids, enableDelta, sortedObjects, idx, outputStream, hashData,
                   packOffsets, processedOids, entryLog>>

\* An iteration on an oid already processed: continue
DeltaPackSkip ==
    /\ ppc = "loop" /\ idx < Len(sortedObjects)
    /\ sortedObjects[idx + 1].oid \in processedOids
    /\ idx' = idx + 1
    /\ UNCHANGED <<oids, enableDelta, ppc, objects, sortedObjects, outputStream,
                   hashData, packOffsets, processedOids, entryLog, packError, returned>>

\* The buffer that an iteration gives to deflate
Deflated(try, tgt) == IF try.kind = "ofs" THEN try.delta ELSE tgt.data

\* An iteration that writes the object as an OFS_DELTA or as a full object
DeltaPackEntry ==
    /\ ppc = "loop" /\ idx < Len(sortedObjects)
    /\ sortedObjects[idx + 1].oid \notin processedOids
    /\ \E try \in {Attempt(sortedObjects, idx, packOffsets)} :
       LET tgt == sortedObjects[idx + 1]
           offset == getCurrentOffset(outputStream)
           chunks == IF try.kind = "ofs"
                     THEN writeOfsDelta(offset, packOffsets[try.base.oid], try.delta)
                     ELSE writeObject(tgt.type, tgt.data)
       IN  /\ try.kind # "throw"
           /\ ~deflateFails(Deflated(try, tgt))
           /\ outputStream' = outputStream \o chunks
           /\ hashData' = hashData \o chunks
           /\ packOffsets' =
                  IF recordsOffset(try.kind)
                  THEN [o \in DOMAIN packOffsets \cup {tgt.oid} |->
                            IF o = tgt.oid THEN offset ELSE packOffsets[o]]
                  ELSE packOffsets
           /\ entryLog' = Append(entryLog,
                  IF try.kind = "ofs"
                  THEN Entry(tgt.oid, "ofs", tgt.type, offset, Len(outputStream) + 1,
                             Len(chunks),
                             Len(typeAndSize(OFS_DELTA_TYPE, WideOf(try.delta.length))),
                             packOffsets[try.base.oid],
                             try.base.data.length, tgt.data.length, try.delta.length)
                  ELSE Entry(tgt.oid, "full", tgt.type, offset, Len(outputStream) + 1,
                             Len(chunks), Len(chunks) - 1, -1, 0, tgt.data.length,
                             tgt.data.length))
    /\ processedOids' = processedOids \cup {sortedObjects[idx + 1].oid}
    /\ idx' = idx + 1
    /\ UNCHANGED <<oids, enableDelta, ppc, objects, sortedObjects, packError, returned>>

\* An iteration in which createDelta throws, or deflate throws after the
\* writer has taken its offset and written what precedes the body:
\* _packWithDelta rejects
DeltaPackThrow ==
    /\ ppc = "loop" /\ idx < Len(sortedObjects)
    /\ sortedObjects[idx + 1].oid \notin processedOids
    /\ \E try \in {Attempt(sortedObjects, idx, packOffsets)} :
       LET tgt == sortedObjects[idx + 1]
           offset == getCurrentOffset(outputStream)
           chunks == IF try.kind = "ofs"
                     THEN writeOfsDelta(offset, packOffsets[try.base.oid], try.delta)
                     ELSE writeObject(tgt.type, tgt.data)
       IN  \/ /\ try.kind = "throw"
              /\ packError' = try.err
              /\ returned' = rejected(outputStream)
              /\ UNCHANGED <<outputStream, hashData, packOffsets>>
           \/ /\ try.kind # "throw"
              /\ deflateFails(Deflated(try, tgt))
              /\ packError' = "DeflateError"
              /\ \E written \in {outputStream \o BeforeDeflate(chunks)} :
                     /\ outputStream' = written
                     /\ hashData' = written
                     /\ returned' = rejected(written)
              /\ packOffsets' =
                     IF recordsOffset(try.kind)
                     THEN [o \in DOMAIN packOffsets \cup {tgt.oid} |->
                               IF o = tgt.oid THEN offset ELSE packOffsets[o]]
                     ELSE packOffsets
    /\ processedOids' = processedOids \cup {sortedObjects[idx + 1].oid}
    /\ ppc' = "failed"
    /\ UNCHANGED <<oids, enableDelta, objects, sortedObjects, idx, entryLog>>

\* The end of _packWithDelta: the digest is pushed to outputStream, which is
\* returned
DeltaPackDigest ==
    /\ ppc = "loop" /\ idx = Len(sortedObjects)
    /\ \E out \in {Append(outputStream, digest(hashData))} :
           outputStream' = out /\ returned' = fulfilled(out)
    /\ ppc' = "done"
    /\ UNCHANGED <<oids, enableDelta, objects, sortedObjects, idx, hashData,
                   packOffsets, processedOids, entryLog, packError>>

(***************************************************************************)
(* The header and back-reference writers on lengths and offsets that the   *)
(* packed objects do not reach, and shouldUseDelta on lengths around its   *)
(* thresholds                                                              *)
(***************************************************************************)
\* Lengths are below 2^SIZE_BITS (length >>> 4 is a 32-bit shift)
SIZE_BITS == 32
WidePow2(k) == IF k < 16 THEN Wide(0, Pow2(k)) ELSE Wide(Pow2(k - 16), 0)
WideAdd(a, b) ==
    Wide(a.hi + b.hi + (a.lo + b.lo) \div 65536, (a.lo + b.lo) % 65536)
SizeSamples ==
    UNION {{WideSub(WidePow2(k), Wide(0, 1)), WidePow2(k)} : k \in 0..(SIZE_BITS - 1)}
    \cup {WideAdd(WidePow2(k), Wide(0, 1)) : k \in 0..(SIZE_BITS - 2)}
    \cup {Wide(65535, 65535)}
OffsetSamples ==
    {w \in SizeSamples : w.hi < 32768 /\ (w.hi > 0 \/ w.lo > 0)}

RECURSIVE ChunkBytes(_)
ChunkBytes(chunks) ==
    IF chunks = <<>> THEN <<>> ELSE Head(chunks).bytes \o ChunkBytes(Tail(chunks))

\* The lengths of COPY instructions encoded in the runs below
CopyLengths == {1, 15, 16, 255, 256, 257, 4096, 65280, 65535, COPY_LENGTH_64K}

InitEnc ==
    /\ \/ /\ encKind \in {"commit", "tree", "blob", "tag", "ofs_delta"}
          /\ encN \in SizeSamples /\ encM = 0
       \/ encKind = "offset" /\ encN \in OffsetSamples /\ encM = 0
       \/ /\ encKind = "copy" /\ encN \in OffsetSamples \cup {WideOf(0)}
          /\ encM \in CopyLengths
    /\ encBytes = <<>> /\ encDone = FALSE

\* The header of writeObject for an object of type encKind and length encN
EncObjectHeader ==
    /\ encKind \in {"commit", "tree", "blob", "tag"} /\ ~encDone
    /\ encBytes' = ChunkBytes(typeAndSize(types(encKind), encN))
    /\ encDone' = TRUE
    /\ UNCHANGED <<encKind, encN, encM>>

\* The header of writeOfsDelta for a delta of length encN
EncOfsHeader ==
    /\ encKind = "ofs_delta" /\ ~encDone
    /\ encBytes' = ChunkBytes(typeAndSize(OFS_DELTA_TYPE, encN))
    /\ encDone' = TRUE
    /\ UNCHANGED <<encKind, encN, encM>>

\* The back-reference of writeOfsDelta for the relative offset encN
EncOffset ==
    /\ encKind = "offset" /\ ~encDone
    /\ encBytes' = ChunkBytes(offsetChunks(encN.hi * 65536 + encN.lo))
    /\ encDone' = TRUE
    /\ UNCHANGED <<encKind, encN, encM>>

\* encodeCopyInstruction for the source offset encN and the length encM
EncCopy ==
    /\ encKind = "copy" /\ ~encDone
    /\ encBytes' = encodeCopyInstruction(encN.hi * 65536 + encN.lo, encM)
    /\ encDone' = TRUE
    /\ UNCHANGED <<encKind, encN, encM>>

SudMax == 4
SudLens == 0..SudMax \cup {99, 100, 101, 199, 200, 201}

InitSud ==
    /\ sudBase \in SudLens /\ sudTarget \in SudLens /\ sudDelta \in SudLens
    /\ sudResult = "none"

\* shouldUseDelta on buffers of the three lengths
SudCall ==
    /\ sudResult = "none"
    /\ sudResult' = IF shouldUseDelta(sudBase, sudTarget, sudDelta) THEN "true" ELSE "false"
    /\ UNCHANGED <<sudBase, sudTarget, sudDelta>>

InitWriter ==
    \/ InitPack /\ DeltaIdle /\ EncIdle /\ SudIdle /\ RestIdle
    \/ InitEnc /\ DeltaIdle /\ PackIdle /\ SudIdle /\ RestIdle
    \/ InitSud /\ DeltaIdle /\ PackIdle /\ EncIdle /\ RestIdle

NextWriter ==
    \/ (PlainStart /\ UNCHANGED <<deltaVars, encVars, sudVars, restVars>>)
    \/ (PlainObject /\ UNCHANGED <<deltaVars, encVars, sudVars, restVars>>)
    \/ (PlainThrow /\ UNCHANGED <<deltaVars, encVars, sudVars, restVars>>)
    \/ (PlainDigest /\ UNCHANGED <<deltaVars, encVars, sudVars, restVars>>)
    \/ (DeltaPackStart /\ UNCHANGED <<deltaVars, encVars, sudVars, restVars>>)
    \/ (DeltaPackReadThrow /\ UNCHANGED <<deltaVars, encVars, sudVars, restVars>>)
    \/ (DeltaPackSkip /\ UNCHANGED <<deltaVars, encVars, sudVars, restVars>>)
    \/ (DeltaPackEntry /\ UNCHANGED <<deltaVars, encVars, sudVars, restVars>>)
    \/ (DeltaPackThrow /\ UNCHANGED <<deltaVars, encVars, sudVars, restVars>>)
    \/ (DeltaPackDigest /\ UNCHANGED <<deltaVars, encVars, sudVars, restVars>>)
    \/ (EncObjectHeader /\ UNCHANGED <<deltaVars, packVars, sudVars, restVars>>)
    \/ (EncOfsHeader /\ UNCHANGED <<deltaVars, packVars, sudVars, restVars>>)
    \/ (EncOffset /\ UNCHANGED <<deltaVars, packVars, sudVars, restVars>>)
    \/ (EncCopy /\ UNCHANGED <<deltaVars, packVars, sudVars, restVars>>)
    \/ (SudCall /\ UNCHANGED <<deltaVars, packVars, encVars, restVars>>)

SpecWriter == InitWriter /\ [][NextWriter]_vars

InitRabinOnly ==
    InitRabin /\ DeltaIdle /\ PackIdle /\ EncIdle /\ SudIdle /\ LockIdle /\ FdbIdle
NextRabin ==
    \/ (RabSlide /\ UNCHANGED <<deltaVars, packVars, encVars, sudVars, lockVars, fdbVars>>)
    \/ (RabReset /\ UNCHANGED <<deltaVars, packVars, encVars, sudVars, lockVars, fdbVars>>)
    \/ (RabStatic /\ UNCHANGED <<deltaVars, packVars, encVars, sudVars, lockVars, fdbVars>>)
SpecRabin == InitRabinOnly /\ [][NextRabin]_vars

InitFdbOnly ==
    InitFdb /\ DeltaIdle /\ PackIdle /\ EncIdle /\ SudIdle /\ RabIdle /\ LockIdle
NextFdb == FdbCall /\ UNCHANGED <<deltaVars, packVars, encVars, sudVars, rabVars, lockVars>>
SpecFdb == InitFdbOnly /\ [][NextFdb]_vars

InitLockOnly ==
    InitLock /\ DeltaIdle /\ PackIdle /\ EncIdle /\ SudIdle /\ RabIdle /\ FdbIdle
NextLock ==
    \/ \E p \in Procs, key \in KeyInputs :
           MapAcquire(p, key) /\ UNCHANGED <<deltaVars, packVars, encVars, sudVars, rabVars, fdbVars>>
    \/ (MapResume /\ UNCHANGED <<deltaVars, packVars, encVars, sudVars, rabVars, fdbVars>>)
    \/ \E p \in Procs :
           MapRelease(p) /\ UNCHANGED <<deltaVars, packVars, encVars, sudVars, rabVars, fdbVars>>
    \/ \E p \in Procs, key \in KeyInputs :
           QueueAcquire(p, key) /\ UNCHANGED <<deltaVars, packVars, encVars, sudVars, rabVars, fdbVars>>
    \/ (QueueResume /\ UNCHANGED <<deltaVars, packVars, encVars, sudVars, rabVars, fdbVars>>)
    \/ \E p \in Procs :
           QueueRelease(p) /\ UNCHANGED <<deltaVars, packVars, encVars, sudVars, rabVars, fdbVars>>
SpecLock == InitLockOnly /\ [][NextLock]_vars

\* The lock with callers that call again and again. The microtasks run, and
\* every holder releases: the function passed to acquire returns or throws,
\* or the release function is called
NextLockAgain ==
    \/ NextLock
    \/ \E p \in Procs :
           LockAgain(p) /\ UNCHANGED <<deltaVars, packVars, encVars, sudVars, rabVars, fdbVars>>
LockFairness ==
    /\ WF_lockVars(MapResume) /\ WF_lockVars(QueueResume)
    /\ \A p \in Procs : WF_lockVars(MapRelease(p)) /\ WF_lockVars(QueueRelease(p))
SpecLockAgain == InitLockOnly /\ [][NextLockAgain]_vars /\ LockFairness

(***************************************************************************)
(* What a reader of the pack sees                                          *)
(***************************************************************************)
\* The 4-byte big-endian count of the header
HeaderCount(stream) ==
    LET b == stream[3].bytes
    IN  ((b[1] * 256 + b[2]) * 256 + b[3]) * 256 + b[4]

\* The number of entries in the stream: every entry ends with its one
\* deflated body
EntriesIn(stream) == Cardinality({k \in 1..Len(stream) : stream[k].kind = "deflate"})

\* The type-and-size header of an entry and the bytes between the header
\* and the deflated body
HeaderOf(e) == ChunkBytes(SubSeq(outputStream, e.first, e.first + e.header - 1))
BackReferenceOf(e) ==
    ChunkBytes(SubSeq(outputStream, e.first + e.header, e.first + e.count - 2))

\* The byte position at which an entry starts in the stream
ByteStart(e) == SumLengths(outputStream, 1, e.first - 1)

\* The 7-bit groups read from position p, least significant first, up to the
\* first byte without the high bit: the number and the position after it
\* (next = 0 when the bytes run out)
RECURSIVE ReadGroups(_, _, _, _)
ReadGroups(bytes, p, scale, acc) ==
    IF p > Len(bytes) \/ scale > 268435456 THEN [value |-> acc, next |-> 0]
    ELSE IF bytes[p] >= 128
    THEN ReadGroups(bytes, p + 1, scale * 128, acc + (bytes[p] % 128) * scale)
    ELSE [value |-> acc + bytes[p] * scale, next |-> p + 1]

\* Git's reading of a type-and-size header at the front of bytes: the type
\* code of bits 4-6, and the size as its low 4 bits and the rest of it
NotDecoded == [ok |-> FALSE, type |-> 0, low |-> 0, rest |-> 0, next |-> 0]
DecodeTypeAndSize(bytes) ==
    LET Rest(groups) ==
            IF groups.next = 0 THEN NotDecoded
            ELSE [ok |-> TRUE, type |-> (bytes[1] \div 16) % 8, low |-> bytes[1] % 16,
                  rest |-> groups.value, next |-> groups.next]
    IN  IF Len(bytes) = 0 THEN NotDecoded
        ELSE IF bytes[1] < 128
        THEN [ok |-> TRUE, type |-> (bytes[1] \div 16) % 8, low |-> bytes[1] % 16,
              rest |-> 0, next |-> 2]
        ELSE Rest(ReadGroups(bytes, 2, 1, 0))

\* Git's reading of an OFS_DELTA offset from position p: 7 bits per byte, most
\* significant first, 1 added before each shift for a continued byte; -1 when
\* the bytes run out
RECURSIVE DecodeOffset(_, _, _)
DecodeOffset(bytes, p, acc) ==
    IF p > Len(bytes) \/ acc > 16777215 THEN -1
    ELSE IF bytes[p] >= 128
    THEN DecodeOffset(bytes, p + 1, (acc + (bytes[p] % 128) + 1) * 128)
    ELSE acc + bytes[p]

\* The type code of an object's kind
TypeCode(stype) ==
    CASE stype = "commit" -> 1
      [] stype = "tree" -> 2
      [] stype = "blob" -> 3
      [] stype = "tag" -> 4

\* The number of OFS_DELTA hops from the k-th entry of the log to a full
\* entry, the base of an entry being the entry logged at its base offset
RECURSIVE ChainDepth(_)
ChainDepth(k) ==
    IF entryLog[k].kind = "full" THEN 0
    ELSE LET bases == {j \in 1..(k - 1) : entryLog[j].start = entryLog[k].baseStart}
         IN  IF bases = {} THEN 0 ELSE 1 + ChainDepth(CHOOSE j \in bases : TRUE)

OfsEntries == {k \in 1..Len(entryLog) : entryLog[k].kind = "ofs"}
FullEntries == {k \in 1..Len(entryLog) : entryLog[k].kind = "full"}

\* The index (counted from 1) in sortedObjects of the processed targets for
\* which findDeltaBase selects a base too large for a DeltaIndex
LargeBaseTargets ==
    {i \in 1..Len(sortedObjects) :
        /\ sortedObjects[i].oid \in processedOids
        /\ \E base \in {findDeltaBase(sortedObjects[i],
                                      selectCandidateWindow(sortedObjects, i - 1, WINDOW_SIZE))} :
               base # NoBase /\ base.data.length > MAX_INDEX_SIZE}

(***************************************************************************)
(* Properties of the pack writer                                           *)
(***************************************************************************)
\* C2: when _packWithDelta has returned, the count in the pack header equals
\* the number of entries in the stream
C2_HeaderCountIsEntryCount ==
    (ppc = "done" /\ enableDelta) => HeaderCount(outputStream) = EntriesIn(outputStream)

\* C3: up to the digest the chunks given to the hash are the chunks of the
\* output, and the returned pack ends with the 20-byte SHA-1 of all the
\* chunks before it, which itself was not hashed
C3_TrailerHashesAllBefore ==
    /\ ppc \in {"start", "plain", "loop", "failed"} => hashData = outputStream
    /\ ppc = "done" =>
          \E n \in {Len(outputStream)} :
              /\ outputStream[n].kind = "sha1" /\ outputStream[n].length = 20
              /\ outputStream[n].of = SubSeq(outputStream, 1, n - 1)
              /\ hashData = SubSeq(outputStream, 1, n - 1)
              /\ \A k \in 1..(n - 1) : outputStream[k].kind # "sha1"

C3_Witness ==
    /\ ppc = "done" /\ enableDelta /\ OfsEntries # {} /\ FullEntries # {}
    /\ outputStream[Len(outputStream)].kind = "sha1"

\* C4: the header of every OFS_DELTA entry, and the header writeOfsDelta
\* writes for any delta length, decodes to type code 6 and the delta length
OfsHeaderDecodes(bytes, low, rest) ==
    \E d \in {DecodeTypeAndSize(bytes)} :
        d.ok /\ d.type = 6 /\ d.low = low /\ d.rest = rest /\ d.next = Len(bytes) + 1
C4_OfsHeaderDecodes ==
    /\ \A k \in OfsEntries :
           OfsHeaderDecodes(HeaderOf(entryLog[k]), entryLog[k].size % 16,
                            entryLog[k].size \div 16)
    /\ (encDone /\ encKind = "ofs_delta") =>
           OfsHeaderDecodes(encBytes, encN.lo % 16, encN.hi * 4096 + encN.lo \div 16)

\* C5: the back-reference of every OFS_DELTA entry, and the back-reference
\* writeOfsDelta writes for any positive offset, decodes under Git's offset
\* decoding to entry_start - base_start
C5_BackReferenceDecodes ==
    /\ \A k \in OfsEntries :
           DecodeOffset(BackReferenceOf(entryLog[k]), 1, 0)
               = entryLog[k].start - entryLog[k].baseStart
    /\ (encDone /\ encKind = "offset") =>
           DecodeOffset(encBytes, 1, 0) = encN.hi * 65536 + encN.lo

\* C6: the header of every full entry, and the header writeObject writes for
\* any length n < 2^32, is more-flag | type | n mod 16 followed, only when
\* n > 15, by the 7-bit groups of floor(n / 16), least significant first, the
\* high bit set on all but the last; it decodes to the type code and n
FullHeaderDecodes(bytes, stype, low, rest) ==
    \E d \in {DecodeTypeAndSize(bytes)} :
        /\ d.ok /\ d.type = TypeCode(stype) /\ d.low = low /\ d.rest = rest
        /\ d.next = Len(bytes) + 1
        /\ bytes[1] = (IF rest > 0 THEN 128 ELSE 0) + 16 * TypeCode(stype) + low
        /\ (rest = 0) = (Len(bytes) = 1)
        /\ Len(bytes) > 1 => bytes[Len(bytes)] # 0
C6_FullHeaderDecodes ==
    /\ \A k \in FullEntries :
           FullHeaderDecodes(HeaderOf(entryLog[k]), entryLog[k].stype,
                             entryLog[k].size % 16, entryLog[k].size \div 16)
    /\ (encDone /\ encKind \in {"commit", "tree", "blob", "tag"}) =>
           FullHeaderDecodes(encBytes, encKind, encN.lo % 16,
                             encN.hi * 4096 + encN.lo \div 16)

C6_Witness ==
    /\ encDone /\ encKind = "tag" /\ encN = Wide(65535, 65535)
    /\ encBytes = <<207, 255, 255, 255, 127>>

\* C7: the base offset of every OFS_DELTA entry is the offset recorded for an
\* earlier entry of the pack, the first byte of that entry lies there, and
\* entry_start - base_start is positive
C7_BaseIsEarlierEntry ==
    \A k \in OfsEntries :
        /\ entryLog[k].start = ByteStart(entryLog[k])
        /\ entryLog[k].start - entryLog[k].baseStart > 0
        /\ \E j \in 1..(k - 1) :
               /\ entryLog[j].start = entryLog[k].baseStart
               /\ ByteStart(entryLog[j]) = entryLog[k].baseStart

C7_Witness ==
    /\ ppc = "done"
    /\ \E k \in OfsEntries : \E j \in 2..(k - 1) :
           ByteStart(entryLog[j]) = entryLog[k].baseStart

\* C8: no entry of the pack is more than MAX_DELTA_CHAIN_DEPTH OFS_DELTA hops
\* away from a full entry
C8_ChainDepthCapped ==
    \A k \in 1..Len(entryLog) : ChainDepth(k) <= MAX_DELTA_CHAIN_DEPTH

C8_Witness ==
    /\ ppc = "done" /\ Len(entryLog) = ChainLen
    /\ \E k \in OfsEntries : k > MAX_DELTA_CHAIN_DEPTH /\ ChainDepth(k) = 1

\* C9: shouldUseDelta returns true exactly when the delta is shorter than
\* half the target and shorter than the base, and every OFS_DELTA entry
\* carries a delta within both bounds
C9_AcceptanceBounds ==
    /\ sudResult \in {"true", "false"} =>
           ((sudResult = "true") <=> (2 * sudDelta < sudTarget /\ sudDelta < sudBase))
    /\ \A k \in OfsEntries :
           /\ 2 * entryLog[k].size < entryLog[k].targetLen
           /\ entryLog[k].size < entryLog[k].baseLen

C9_Witness ==
    sudResult = "false" /\ sudDelta > 0 /\ 2 * sudDelta = sudTarget /\ sudDelta < sudBase

\* C10: a target whose selected base is larger than MAX_INDEX_SIZE is written
\* as a full entry and the pack does not fail
C10_LargeBaseWrittenFull ==
    \A i \in LargeBaseTargets :
        /\ packError = ""
        /\ \E k \in FullEntries : entryLog[k].oid = sortedObjects[i].oid

\* The chunks form the header, the entries of the log one after the other,
\* each ending with its deflated body, and the 20-byte trailer
WholePack(chunks) ==
    /\ Len(chunks) >= 4
    /\ chunks[1].bytes = <<80, 65, 67, 75>> /\ chunks[2].bytes = <<0, 0, 0, 2>>
    /\ chunks[3].length = 4
    /\ chunks[Len(chunks)].kind = "sha1"
    /\ \A k \in 1..Len(entryLog) :
           /\ entryLog[k].first
                  = (IF k = 1 THEN 4 ELSE entryLog[k - 1].first + entryLog[k - 1].count)
           /\ chunks[entryLog[k].first + entryLog[k].count - 1].kind = "deflate"
           /\ \A c \in entryLog[k].first..(entryLog[k].first + entryLog[k].count - 2) :
                  chunks[c].kind = "raw"
    /\ Len(chunks) = 4 + SumLengths([k \in 1..Len(entryLog) |-> [length |-> entryLog[k].count]],
                                    1, Len(entryLog))
    /\ {entryLog[k].oid : k \in 1..Len(entryLog)} = {oids[k] : k \in 1..Len(oids)}

\* C11: a call that fails gives the caller no chunk at all, whatever was
\* written to the local outputStream before the failure; a call that
\* succeeds returns the header, all entries and the trailer
C11_FullOrNothing ==
    /\ ppc = "failed" => returned.status = "rejected"
    /\ ppc = "done" => returned.status = "fulfilled"
    /\ returned.status # "fulfilled" => returned.chunks = <<>>
    /\ returned.status = "fulfilled" =>
           returned.chunks = outputStream /\ WholePack(returned.chunks)

C11_Witness ==
    /\ ppc = "failed" /\ packError = "DeflateError" /\ returned = rejected(outputStream)
    /\ Len(outputStream) > 3 /\ outputStream[Len(outputStream)].kind = "raw"
    /\ entryLog # <<>>

\* C16: the bytes of encodeCopyInstruction are a code byte with bit 7 set
\* and exactly the offset and length bytes its bits announce, they decode to
\* the offset and the length, and the length 0x10000 is written with bits
\* 4..6 clear and no length byte
C16_CopyEncodingRoundTrip ==
    (encDone /\ encKind = "copy") =>
        /\ encBytes[1] >= 128
        /\ \E ops \in {CopyOperands(encBytes, encBytes[1] % 128, 2)} :
               /\ ops.ok /\ ops.next = Len(encBytes) + 1
               /\ ops.offset = encN.hi * 65536 + encN.lo
               /\ (IF ops.length = 0 THEN COPY_LENGTH_64K ELSE ops.length) = encM
               /\ encM = COPY_LENGTH_64K => (encBytes[1] \div 16) % 8 = 0

\* C20: once _packWithDelta has written the entry of an object, full or
\* OFS_DELTA, packOffsets maps the oid of the object to the offset of the
\* first byte of the entry
C20_EveryEntryRecorded ==
    enableDelta =>
        \A k \in 1..Len(entryLog) :
            /\ entryLog[k].oid \in DOMAIN packOffsets
            /\ packOffsets[entryLog[k].oid] = entryLog[k].start

\* The acquirers of a sequence that named the key lockKey
OnKey(procs, lockKey) ==
    LET Named(p) == acquirers[p].lockKey = lockKey IN SelectSeq(procs, Named)
Holders(lockKey) ==
    {p \in Procs : acquirers[p].pc = "holding" /\ acquirers[p].lockKey = lockKey}
Finished(lockKey) ==
    {p \in Procs : acquirers[p].pc = "done" /\ acquirers[p].lockKey = lockKey}

\* C18: in both implementations at most one acquirer of a key holds the
\* lock at any time, and the counter of the key counts every critical section
\* that has ended: no update made under the lock is lost
C18_MutualExclusion ==
    \A lockKey \in LockKeys :
        /\ Cardinality(Holders(lockKey)) <= 1
        /\ counter[lockKey] = Cardinality(Finished(lockKey))

C18_Witness ==
    /\ lockImpl = "map"
    /\ \E p, q, r \in Procs :
           /\ Finished("a:b") = {p} /\ Holders("a:b") = {q}
           /\ lockCalled = <<p, q, r>> /\ reactions[q] = <<r>>
           /\ r \notin Holders("a") /\ counter["a:b"] = 1

\* C19: with the Map of promises, the acquirers of a key are granted the lock
\* in the order in which they called acquire
C19_FifoOrder ==
    lockImpl = "map" =>
        \A lockKey \in LockKeys :
            \E granted \in {OnKey(lockGranted, lockKey)} :
                granted = SubSeq(OnKey(lockCalled, lockKey), 1, Len(granted))

\* C21: shouldUseDelta returns true for every delta shorter than 100 bytes
\* and shorter than half the target, whatever the base
C21_SmallDeltaAccepted ==
    (sudResult \in {"true", "false"} /\ sudDelta < 100 /\ 2 * sudDelta < sudTarget) =>
        sudResult = "true"

\* C22: computeRabinHash throws, and returns no hash, whenever the 16 bytes
\* from the offset on do not all lie inside the buffer, the negative
\* offsets included
C22_OutsideRegionThrows ==
    (rabStatic.done /\ (rabStatic.offset < 0
                        \/ rabStatic.offset + RABIN_WINDOW > rabBuf.length)) =>
        rabStatic.hash = -1

\* What makes a candidate admissible as the base of a target
Admissible(candidate, tgt) ==
    /\ candidate.type = tgt.type
    /\ candidate.depth < MAX_DELTA_CHAIN_DEPTH
    /\ candidate.data.length > 0
    /\ Max2(candidate.data.length, tgt.data.length)
           <= 2 * Min2(candidate.data.length, tgt.data.length)
FdbRange == {fdbCandidates[k] : k \in 1..Len(fdbCandidates)}

\* C24: findDeltaBase returns null for a target shorter than 16 bytes and when
\* no candidate is of the type of the target, less than 50 deep and within
\* twice its size; what it returns is one of the candidates and is all three
C24_BaseIsAdmissible ==
    fdbResult.done =>
        /\ fdbTarget.data.length < MIN_SIZE_FOR_DELTA => fdbResult.base = NoBase
        /\ (\A c \in FdbRange : ~Admissible(c, fdbTarget)) => fdbResult.base = NoBase
        /\ fdbResult.base # NoBase =>
               /\ fdbResult.base \in FdbRange
               /\ Admissible(fdbResult.base, fdbTarget)

C24_Witness ==
    /\ fdbResult.done /\ fdbResult.base # NoBase /\ Len(fdbCandidates) = 2
    /\ fdbResult.base = fdbCandidates[2]
    /\ fdbCandidates[1].type = fdbTarget.type
    /\ fdbCandidates[1].depth = MAX_DELTA_CHAIN_DEPTH
    /\ 2 * fdbCandidates[1].data.length = fdbTarget.data.length
    /\ fdbResult.base.data.length = 2 * fdbTarget.data.length

\* How often an object occurs in a sequence of objects
Occurrences(objs, o) == Cardinality({k \in 1..Len(objs) : objs[k] = o})

\* C25: the objects that _packWithDelta emits are the objects it read, each
\* as often as it was read; the objects of a kind are contiguous, and within
\* a kind the first two hex digits of the oid do not decrease, and for equal
\* digits the payload size does not decrease
C25_EmitOrder ==
    (enableDelta /\ ppc \in {"loop", "done"}) =>
        /\ Len(sortedObjects) = Len(objects)
        /\ \A k \in 1..Len(objects) :
               Occurrences(sortedObjects, objects[k]) = Occurrences(objects, objects[k])
        /\ \A i \in 1..Len(sortedObjects) : \A j \in (i + 1)..Len(sortedObjects) :
               sortedObjects[i].type = sortedObjects[j].type =>
                   /\ \A m \in i..j : sortedObjects[m].type = sortedObjects[i].type
                   /\ PathKey(sortedObjects[i]) <= PathKey(sortedObjects[j])
                   /\ PathKey(sortedObjects[i]) = PathKey(sortedObjects[j]) =>
                          sortedObjects[i].data.length <= sortedObjects[j].data.length

C25_Witness ==
    /\ enableDelta /\ ppc = "done" /\ Len(sortedObjects) = 5
    /\ sortedObjects[1].oid = OidA /\ sortedObjects[4].oid = OidK
    /\ objects[1].oid = OidV /\ objects[2].oid = OidK

\* The index in sortedObjects at which the object of the k-th entry is
\* processed, and the candidate that findDeltaBase scores best for it
ProcessedAt(k) ==
    CHOOSE i \in 1..Len(sortedObjects) :
        /\ sortedObjects[i].oid = entryLog[k].oid
        /\ \A j \in 1..(i - 1) : sortedObjects[j].oid # entryLog[k].oid
BestCandidate(i) ==
    findDeltaBase(sortedObjects[i], selectCandidateWindow(sortedObjects, i - 1, WINDOW_SIZE))
WrittenAsDelta(oid) == \E k \in OfsEntries : entryLog[k].oid = oid

\* C27: in a pack of _packWithDelta the base of every OFS_DELTA entry is a
\* full entry, the depth of every object stays 0, no object written as a
\* delta has an offset in packOffsets, and an object whose best candidate was
\* written as a delta is written in full
C27_BasesAreFullEntries ==
    enableDelta =>
        /\ \A k \in OfsEntries :
               /\ ChainDepth(k) = 1
               /\ \E j \in FullEntries :
                      j < k /\ entryLog[j].start = entryLog[k].baseStart
               /\ entryLog[k].oid \notin DOMAIN packOffsets
        /\ \A i \in 1..Len(sortedObjects) : sortedObjects[i].depth = 0
        /\ \A k \in 1..Len(entryLog) :
               \E base \in {BestCandidate(ProcessedAt(k))} :
                   (base # NoBase /\ WrittenAsDelta(base.oid)) => entryLog[k].kind = "full"

C27_Witness ==
    /\ enableDelta /\ ppc = "done" /\ Len(entryLog) = ChainLen
    /\ \E k \in FullEntries :
           /\ k > 1 /\ entryLog[k - 1].kind = "ofs"
           /\ BestCandidate(ProcessedAt(k)).oid = entryLog[k - 1].oid

\* One iteration of the walk moves the position forward, by the 16 or more
\* bytes of a COPY or by the 1 to 127 bytes of an INSERT
WalkAdvances ==
    (dpc = "walk" /\ dpc' = "walk") =>
        /\ Len(instructions') = Len(instructions) + 1
        /\ \E pushed \in {instructions'[Len(instructions')]} :
               /\ pos' = pos + pushed.length
               /\ pushed.type = "COPY" => pushed.length >= MIN_COPY_LENGTH
               /\ pushed.type = "INSERT" =>
                      pushed.length >= 1 /\ pushed.length <= MAX_INSERT_LENGTH
\* The walk stays within the target and ends at its end, with instructions
\* that cover it once; the counts of analyzeDelta add up to its length
WalkCovers ==
    /\ pos <= target.length /\ InstrStart(Len(instructions) + 1) = pos
    /\ dpc \in {"encoded", "applied"} => pos = target.length
    /\ dpc = "analyzed" =>
           /\ stats.err = ""
           /\ stats.copyBytes + stats.insertBytes = target.length
           /\ stats.targetSize = target.length

\* C28: createDelta and analyzeDelta come to an end, the position being a
\* variant of the walk: every iteration moves it forward, by 16 bytes or
\* more for a COPY and by 1 to 127 bytes for an INSERT, it never passes the
\* length of the target and the walk ends with it at that length, and
\* analyzeDelta reports copyBytes + insertBytes = len(T)
C28_WalkTerminates ==
    /\ [][WalkAdvances]_vars
    /\ []WalkCovers

C28_Witness ==
    /\ dpc = "analyzed" /\ stats.copyInstructions = 1 /\ stats.insertInstructions = 3
    /\ stats.insertBytes = InsLen + TailLen /\ stats.copyBytes > RABIN_WINDOW

\* The low 23 bits of the last three bytes of the window that ends before end
LastThree(buf, end) ==
    (At(buf, end - 3) * 65536 + At(buf, end - 2) * 256 + At(buf, end - 1))
        % (RABIN_MASK + 1)
\* The offsets of the 16-byte regions of a buffer
RegionOffsets(buf) == 0..(buf.length - RABIN_WINDOW)

C29_PendingAcquireGranted ==
    \A p \in Procs : (acquirers[p].pc = "waiting") ~> (acquirers[p].pc = "holding")

====
